---- MODULE Spec2Model ----
(***************************************************************************)
(* Model of the price-analysis core of serp_price_checker:                 *)
(*   src/src/core/models.py, token_matcher.py, matcher.py, analyzer.py.    *)
(*                                                                         *)
(* Python str values are sequences of one-character strings, so that       *)
(* lower(), strip(), replace() and the `in` substring test are computed,   *)
(* not assumed.  Prices are integers (cents); 0 is "no price".  An average, *)
(* a percentage or a score is an exact fraction <<numerator, denominator>> *)
(* in lowest terms.  The difference of two prices that a recommendation    *)
(* carries is kept with the side to which the double subtraction rounds.   *)
(***************************************************************************)
EXTENDS Integers, Sequences, FiniteSets, TLC

(***************************************************************************)
(* Generic helpers                                                         *)
(***************************************************************************)
Range(s) == {s[i] : i \in DOMAIN s}

Abs(x) == IF x < 0 THEN -x ELSE x

MaxOf(S) == CHOOSE x \in S : \A y \in S : y <= x

RECURSIVE Gcd(_, _)
Gcd(a, b) == IF b = 0 THEN a ELSE Gcd(b, a % b)

\* an exact fraction n/d (d > 0) in lowest terms
Frac(n, d) ==
    LET g == Gcd(Abs(n), d)
    IN  IF n = 0 THEN <<0, 1>> ELSE <<n \div g, d \div g>>

FracLess(a, b) == a[1] * b[2] < b[1] * a[2]

FracGeq(a, b) == a[1] * b[2] >= b[1] * a[2]

RECURSIVE SumSeq(_)
SumSeq(s) == IF s = <<>> THEN 0 ELSE s[1] + SumSeq(Tail(s))

\* the sequence of the indices of s, in order
Indices(s) == [i \in 1..Len(s) |-> i]

\* all sequences over S of length at most n
SeqsUpTo(S, n) == UNION {[1..k -> S] : k \in 0..n}

(***************************************************************************)
(* list.sort / sorted(): a stable sort.  keys[i] is the integer key of     *)
(* items[i]; the result lists the items by ascending key, equal keys in    *)
(* their original order.                                                   *)
(***************************************************************************)
RECURSIVE InsertStable(_, _, _)
InsertStable(sorted, keys, i) ==
    \* insert index i after every index whose key is <= keys[i]
    IF sorted = <<>> THEN <<i>>
    ELSE IF keys[sorted[Len(sorted)]] <= keys[i]
         THEN Append(sorted, i)
         ELSE Append(InsertStable(SubSeq(sorted, 1, Len(sorted) - 1), keys, i),
                     sorted[Len(sorted)])

RECURSIVE SortIndices(_, _)
SortIndices(keys, n) ==
    IF n = 0 THEN <<>> ELSE InsertStable(SortIndices(keys, n - 1), keys, n)

StableSortByKey(items, keys) ==
    LET order == SortIndices(keys, Len(items))
    IN  [i \in 1..Len(items) |-> items[order[i]]]

(***************************************************************************)
(* Python str operations                                                   *)
(***************************************************************************)
UpperChars == <<"A","B","C","D","E","F","G","H","I","J","K","L","M",
                "N","O","P","Q","R","S","T","U","V","W","X","Y","Z">>
LowerChars == <<"a","b","c","d","e","f","g","h","i","j","k","l","m",
                "n","o","p","q","r","s","t","u","v","w","x","y","z">>
Digits == {"0","1","2","3","4","5","6","7","8","9"}
Whitespace == {" "}

UpperSet == Range(UpperChars)
LowerSet == Range(LowerChars)

LowerMap == [c \in UpperSet |-> LowerChars[CHOOSE i \in DOMAIN UpperChars : UpperChars[i] = c]]
UpperMap == [c \in LowerSet |-> UpperChars[CHOOSE i \in DOMAIN LowerChars : LowerChars[i] = c]]

LowerChar(c) == IF c \in UpperSet THEN LowerMap[c] ELSE c
UpperChar(c) == IF c \in LowerSet THEN UpperMap[c] ELSE c

str_lower(s) == [i \in DOMAIN s |-> LowerChar(s[i])]
str_upper(s) == [i \in DOMAIN s |-> UpperChar(s[i])]

RECURSIVE str_lstrip(_)
str_lstrip(s) ==
    IF s # <<>> /\ s[1] \in Whitespace THEN str_lstrip(Tail(s)) ELSE s

RECURSIVE str_rstrip(_)
str_rstrip(s) ==
    IF s # <<>> /\ s[Len(s)] \in Whitespace
    THEN str_rstrip(SubSeq(s, 1, Len(s) - 1))
    ELSE s

str_strip(s) == str_rstrip(str_lstrip(s))

\* needle in hay
str_contains(needle, hay) ==
    \E i \in 0..(Len(hay) - Len(needle)) :
        \A k \in 1..Len(needle) : hay[i + k] = needle[k]

\* s.replace(old, new), old non-empty: left to right, non-overlapping
RECURSIVE str_replace(_, _, _)
str_replace(s, old, new) ==
    IF Len(s) < Len(old) THEN s
    ELSE IF SubSeq(s, 1, Len(old)) = old
         THEN new \o str_replace(SubSeq(s, Len(old) + 1, Len(s)), old, new)
         ELSE <<s[1]>> \o str_replace(Tail(s), old, new)

\* text.split(): the maximal runs of non-whitespace characters
RECURSIVE str_split(_)
str_split(s) ==
    LET t == str_lstrip(s)
        n == IF \E i \in DOMAIN t : t[i] \in Whitespace
             THEN (CHOOSE i \in DOMAIN t :
                      t[i] \in Whitespace /\ \A j \in 1..(i - 1) : t[j] \notin Whitespace) - 1
             ELSE Len(t)
    IN  IF t = <<>> THEN <<>>
        ELSE <<SubSeq(t, 1, n)>> \o str_split(SubSeq(t, n + 1, Len(t)))

\* sep.join(parts)
RECURSIVE str_join(_, _)
str_join(sep, parts) ==
    IF parts = <<>> THEN <<>>
    ELSE IF Len(parts) = 1 THEN parts[1]
    ELSE parts[1] \o sep \o str_join(sep, Tail(parts))

(***************************************************************************)
(* The titles of the products and queries the model is run on.             *)
(***************************************************************************)
\* "Samsung Galaxy S24 Ultra 256GB Negro"
TitleS24Negro ==
    <<"S","a","m","s","u","n","g"," ","G","a","l","a","x","y"," ","S","2","4"," ","U","l","t",
      "r","a"," ","2","5","6","G","B"," ","N","e","g","r","o">>

\* "MSI Cyborg 15 Gaming"
TitleMsiGaming ==
    <<"M","S","I"," ","C","y","b","o","r","g"," ","1","5"," ","G","a","m","i","n","g">>

\* "Funda Silicona Negra"
TitleFunda ==
    <<"F","u","n","d","a"," ","S","i","l","i","c","o","n","a"," ","N","e","g","r","a">>

\* "samsung galaxy s24 ultra"
QueryS24 ==
    <<"s","a","m","s","u","n","g"," ","g","a","l","a","x","y"," ","s","2","4"," ","u","l","t",
      "r","a">>

\* "Cable 1121A"
TitleCable1121A ==
    <<"C","a","b","l","e"," ","1","1","2","1","A">>

\* "Cable 2111A"
TitleCable2111A ==
    <<"C","a","b","l","e"," ","2","1","1","1","A">>

\* "Funda 1121a"
TitleFunda1121a ==
    <<"F","u","n","d","a"," ","1","1","2","1","a">>

NoText == <<>>

\* "Galaxy S24 512GB"
TitleS24With512 ==
    <<"G","a","l","a","x","y"," ","S","2","4"," ","5","1","2","G","B">>

AllTitles ==
    {TitleS24Negro, TitleMsiGaming, TitleFunda, QueryS24, NoText,
     TitleCable1121A, TitleCable2111A, TitleFunda1121a, TitleS24With512}

\* the set orders a process can have
Seeds == {0, 1}

(***************************************************************************)
(* token_matcher.py: tables                                                *)
(***************************************************************************)
\* KNOWN_BRANDS is a Python set; its elements are listed here in source order.
\* The order a loop visits them in is SetOrder(KNOWN_BRANDS, seed).
KNOWN_BRANDS == <<
    <<"a","p","p","l","e">>, <<"i","p","h","o","n","e">>, <<"i","p","a","d">>,
    <<"m","a","c","b","o","o","k">>, <<"a","i","r","p","o","d","s">>, <<"i","m","a","c">>,
    <<"s","a","m","s","u","n","g">>, <<"g","a","l","a","x","y">>, <<"x","i","a","o","m","i">>,
    <<"r","e","d","m","i">>, <<"p","o","c","o">>, <<"h","u","a","w","e","i">>,
    <<"h","o","n","o","r">>, <<"s","o","n","y">>, <<"x","p","e","r","i","a">>,
    <<"p","l","a","y","s","t","a","t","i","o","n">>, <<"p","s","4">>, <<"p","s","5">>,
    <<"l","g">>, <<"p","h","i","l","i","p","s">>, <<"p","a","n","a","s","o","n","i","c">>,
    <<"a","s","u","s">>, <<"r","o","g">>, <<"t","u","f">>, <<"z","e","n","f","o","n","e">>,
    <<"a","c","e","r">>, <<"n","i","t","r","o">>, <<"p","r","e","d","a","t","o","r">>,
    <<"l","e","n","o","v","o">>, <<"t","h","i","n","k","p","a","d">>,
    <<"i","d","e","a","p","a","d">>, <<"l","e","g","i","o","n">>, <<"h","p">>,
    <<"o","m","e","n">>, <<"p","a","v","i","l","i","o","n">>, <<"e","n","v","y">>,
    <<"d","e","l","l">>, <<"a","l","i","e","n","w","a","r","e">>, <<"x","p","s">>,
    <<"i","n","s","p","i","r","o","n">>, <<"m","s","i">>, <<"r","a","i","d","e","r">>,
    <<"s","t","e","a","l","t","h">>, <<"c","y","b","o","r","g">>, <<"k","a","t","a","n","a">>,
    <<"g","i","g","a","b","y","t","e">>, <<"a","o","r","u","s">>, <<"a","e","r","o">>,
    <<"r","a","z","e","r">>, <<"b","l","a","d","e">>, <<"l","o","g","i","t","e","c","h">>,
    <<"c","o","r","s","a","i","r">>, <<"s","t","e","e","l","s","e","r","i","e","s">>,
    <<"h","y","p","e","r","x">>, <<"t","r","u","s","t">>, <<"g","e","n","i","u","s">>,
    <<"t","p","-","l","i","n","k">>, <<"n","e","t","g","e","a","r">>, <<"d","l","i","n","k">>,
    <<"d","-","l","i","n","k">>, <<"u","b","i","q","u","i","t","i">>, <<"z","y","x","e","l">>,
    <<"l","i","n","k","s","y","s">>, <<"s","e","a","g","a","t","e">>,
    <<"w","e","s","t","e","r","n"," ","d","i","g","i","t","a","l">>, <<"w","d">>,
    <<"s","a","n","d","i","s","k">>, <<"k","i","n","g","s","t","o","n">>,
    <<"c","r","u","c","i","a","l">>, <<"t","o","s","h","i","b","a">>,
    <<"n","v","i","d","i","a">>, <<"g","e","f","o","r","c","e">>, <<"r","t","x">>,
    <<"g","t","x">>, <<"a","m","d">>, <<"r","a","d","e","o","n">>, <<"r","y","z","e","n">>,
    <<"i","n","t","e","l">>, <<"c","o","r","e">>, <<"c","a","n","o","n">>,
    <<"n","i","k","o","n">>, <<"f","u","j","i","f","i","l","m">>, <<"g","o","p","r","o">>,
    <<"d","j","i">>, <<"i","n","s","t","a","3","6","0">>, <<"o","s","m","o">>,
    <<"b","o","s","e">>, <<"j","b","l">>, <<"h","a","r","m","a","n">>,
    <<"m","a","r","s","h","a","l","l">>, <<"b","a","n","g"," ","o","l","u","f","s","e","n">>,
    <<"s","e","n","n","h","e","i","s","e","r">>,
    <<"a","u","d","i","o"," ","t","e","c","h","n","i","c","a">>, <<"b","r","a","u","n">>,
    <<"r","e","m","i","n","g","t","o","n">>, <<"b","a","b","y","l","i","s","s">>,
    <<"r","o","w","e","n","t","a">>, <<"t","e","f","a","l">>,
    <<"n","i","n","t","e","n","d","o">>, <<"s","w","i","t","c","h">>, <<"x","b","o","x">>,
    <<"m","i","c","r","o","s","o","f","t">>, <<"v","a","l","v","e">>, <<"s","t","e","a","m">>,
    <<"d","e","c","k">>, <<"n","e","w","s","k","i","l","l">>, <<"k","r","o","m">>,
    <<"t","e","m","p","e","s","t">>, <<"m","a","r","s"," ","g","a","m","i","n","g">>,
    <<"n","o","x">>, <<"c","o","o","l","b","o","x">>, <<"o","z","o","n","e">>,
    <<"e","l","g","a","t","o">>, <<"s","t","r","e","a","m","d","e","c","k">>,
    <<"b","o","s","c","h">>, <<"s","i","e","m","e","n","s">>, <<"b","a","l","a","y">>,
    <<"t","e","k","a">>, <<"z","a","n","u","s","s","i">>,
    <<"e","l","e","c","t","r","o","l","u","x">>, <<"w","h","i","r","l","p","o","o","l">>,
    <<"a","e","g">>, <<"c","e","c","o","t","e","c">>, <<"c","o","n","g","a">>,
    <<"m","a","m","b","o">>, <<"b","a","m","b","a">>, <<"d","y","s","o","n">>,
    <<"r","o","o","m","b","a">>, <<"i","r","o","b","o","t">>,
    <<"r","o","b","o","r","o","c","k">>, <<"d","r","e","a","m","e">>,
    <<"e","c","o","v","a","c","s">>, <<"d","e","l","o","n","g","h","i">>,
    <<"n","e","s","p","r","e","s","s","o">>, <<"k","r","u","p","s">>,
    <<"m","o","u","l","i","n","e","x">>, <<"s","m","e","g">>,
    <<"k","i","t","c","h","e","n","a","i","d">>, <<"d","a","i","k","i","n">>,
    <<"m","i","t","s","u","b","i","s","h","i">>, <<"h","i","s","e","n","s","e">>,
    <<"h","a","i","e","r">>, <<"g","a","r","m","i","n">>, <<"t","o","m","t","o","m">>,
    <<"f","i","t","b","i","t">>, <<"p","o","l","a","r">>, <<"s","u","u","n","t","o">>,
    <<"c","o","r","o","s">>, <<"s","e","g","w","a","y">>, <<"n","i","n","e","b","o","t">>,
    <<"y","o","u","i","n">>, <<"n","i","l","o","x">>, <<"s","m","a","r","t","g","y","r","o">>,
    <<"i","k","e","a">>, <<"l","e","r","o","y">>, <<"b","r","i","c","o","m","a","r","t">>,
    <<"g","a","r","d","e","n","a">>, <<"m","a","k","i","t","a">>, <<"d","e","w","a","l","t">>,
    <<"b","l","a","c","k"," ","d","e","c","k","e","r">>, <<"s","t","a","n","l","e","y">>,
    <<"e","i","n","h","e","l","l">>, <<"p","a","r","k","s","i","d","e">>,
    <<"p","c","c","o","m","p","o","n","e","n","t","e","s">>, <<"p","c","c","o","m">>,
    <<"p","c","c","m">>, <<"a","m","a","z","o","n">>,
    <<"m","e","d","i","a","m","a","r","k","t">>, <<"c","a","r","r","e","f","o","u","r">>,
    <<"f","n","a","c">> >>

\* SYNONYMS is a dict, visited in insertion order: <<main term, synonyms>>
SYNONYMS == <<
    <<<<"p","l","a","y","s","t","a","t","i","o","n">>, <<<<"p","s">>, <<"p","s","4">>, <<"p","s","5">>, <<"p","s","x">>, <<"p","s","o","n","e">>>> >>,
    <<<<"p","s","5">>, <<<<"p","l","a","y","s","t","a","t","i","o","n"," ","5">>, <<"p","l","a","y","s","t","a","t","i","o","n","5">>, <<"p","l","a","y"," ","s","t","a","t","i","o","n"," ","5">>>> >>,
    <<<<"p","s","4">>, <<<<"p","l","a","y","s","t","a","t","i","o","n"," ","4">>, <<"p","l","a","y","s","t","a","t","i","o","n","4">>, <<"p","l","a","y"," ","s","t","a","t","i","o","n"," ","4">>>> >>,
    <<<<"n","i","n","t","e","n","d","o"," ","s","w","i","t","c","h">>, <<<<"s","w","i","t","c","h">>, <<"n","s">>, <<"n","s","w","i","t","c","h">>>> >>,
    <<<<"x","b","o","x">>, <<<<"x","b">>, <<"x","b","o","n","e">>, <<"x","b","o","x","o","n","e">>, <<"x","b","o","x","s","e","r","i","e","s">>, <<"x","b","x">>, <<"x","b","s">>>> >>,
    <<<<"i","p","h","o","n","e">>, <<<<"a","p","p","l","e"," ","i","p","h","o","n","e">>, <<"i","-","p","h","o","n","e">>>> >>,
    <<<<"i","p","a","d">>, <<<<"a","p","p","l","e"," ","i","p","a","d">>, <<"i","-","p","a","d">>>> >>,
    <<<<"m","a","c","b","o","o","k">>, <<<<"a","p","p","l","e"," ","m","a","c","b","o","o","k">>, <<"m","a","c"," ","b","o","o","k">>>> >>,
    <<<<"a","i","r","p","o","d","s">>, <<<<"a","p","p","l","e"," ","a","i","r","p","o","d","s">>, <<"a","i","r"," ","p","o","d","s">>>> >>,
    <<<<"g","a","l","a","x","y">>, <<<<"s","a","m","s","u","n","g"," ","g","a","l","a","x","y">>>> >>,
    <<<<"g","e","f","o","r","c","e">>, <<<<"n","v","i","d","i","a"," ","g","e","f","o","r","c","e">>, <<"n","v","i","d","i","a">>>> >>,
    <<<<"r","a","d","e","o","n">>, <<<<"a","m","d"," ","r","a","d","e","o","n">>>> >>,
    <<<<"r","y","z","e","n">>, <<<<"a","m","d"," ","r","y","z","e","n">>>> >>,
    <<<<"c","o","r","e">>, <<<<"i","n","t","e","l"," ","c","o","r","e">>>> >>,
    <<<<"r","o","o","m","b","a">>, <<<<"i","r","o","b","o","t"," ","r","o","o","m","b","a">>>> >>,
    <<<<"c","o","n","g","a">>, <<<<"c","e","c","o","t","e","c"," ","c","o","n","g","a">>>> >>,
    <<<<"n","e","g","r","o">>, <<<<"b","l","a","c","k">>, <<"n","o","i","r">>, <<"n","e","g","r","a">>>> >>,
    <<<<"b","l","a","n","c","o">>, <<<<"w","h","i","t","e">>, <<"b","l","a","n","c">>, <<"b","l","a","n","c","a">>>> >>,
    <<<<"g","r","i","s">>, <<<<"g","r","e","y">>, <<"g","r","a","y">>, <<"s","i","l","v","e","r">>, <<"p","l","a","t","a">>>> >>,
    <<<<"a","z","u","l">>, <<<<"b","l","u","e">>, <<"b","l","e","u">>>> >>,
    <<<<"r","o","j","o">>, <<<<"r","e","d">>, <<"r","o","u","g","e">>>> >>,
    <<<<"v","e","r","d","e">>, <<<<"g","r","e","e","n">>, <<"v","e","r","t">>>> >>,
    <<<<"r","o","s","a">>, <<<<"p","i","n","k">>, <<"r","o","s","e">>>> >>,
    <<<<"d","o","r","a","d","o">>, <<<<"g","o","l","d">>, <<"g","o","l","d","e","n">>, <<"o","r","o">>>> >>,
    <<<<"2","5","6","g","b">>, <<<<"2","5","6"," ","g","b">>, <<"2","5","6","g">>>> >>,
    <<<<"5","1","2","g","b">>, <<<<"5","1","2"," ","g","b">>, <<"5","1","2","g">>>> >>,
    <<<<"1","t","b">>, <<<<"1"," ","t","b">>, <<"1","0","0","0","g","b">>, <<"1","0","2","4","g","b">>>> >>,
    <<<<"2","t","b">>, <<<<"2"," ","t","b">>, <<"2","0","0","0","g","b">>, <<"2","0","4","8","g","b">>>> >> >>

\* STOP_WORDS is a Python set, used for membership only
STOP_WORDS == {
    <<"d","e">>, <<"d","e","l">>, <<"l","a">>, <<"e","l">>, <<"l","o","s">>, <<"l","a","s">>,
    <<"u","n">>, <<"u","n","a">>, <<"u","n","o","s">>, <<"u","n","a","s">>, <<"y">>, <<"o">>,
    <<"a">>, <<"e","n">>, <<"c","o","n">>, <<"p","a","r","a">>, <<"p","o","r">>,
    <<"s","i","n">>, <<"s","o","b","r","e">>, <<"t","h","e">>, <<"a","n">>, <<"a","n","d">>,
    <<"o","r">>, <<"o","f">>, <<"f","o","r">>, <<"w","i","t","h">>, <<"t","o">>, <<"i","n">>,
    <<"o","n">>, <<"e","s">>, <<"e","u">>, <<"c","o","m">>, <<"w","w","w">>,
    <<"h","t","t","p">>, <<"h","t","t","p","s">>, <<"n","u","e","v","o">>, <<"n","e","w">>,
    <<"o","f","i","c","i","a","l">>, <<"o","r","i","g","i","n","a","l">>,
    <<"v","e","r","s","i","o","n">>, <<"e","d","i","c","i","o","n">>,
    <<"e","d","i","t","i","o","n">>, <<"p","a","c","k">>, <<"k","i","t">>, <<"s","e","t">>,
    <<"b","u","n","d","l","e">>, <<"c","o","m","b","o">>, <<"l","o","t","e">> }

\* MODEL_PATTERNS has six regular expressions; they are numbered in list order
ModelPatternCount == 6

\* the unit alternation of the number regex of extract_tokens, in its order
NumberUnits == <<
    <<"g","b">>, <<"t","b">>, <<"m","b">>, <<"k","g">>, <<"g">>, <<"l">>, <<"m","l">>,
    <<"w">>, <<"v">>, <<"h","z">>, <<"m","a","h">>, <<"m","m">>, <<"c","m">>, <<"m">>,
    <<"p","u","l","g","a","d","a","s">> >>

\* an accented letter is one character, written by name: "a_acute"
AccentTable == <<
    <<"a", {"a_acute", "a_grave", "a_uml", "a_circ"}>>,
    <<"e", {"e_acute", "e_grave", "e_uml", "e_circ"}>>,
    <<"i", {"i_acute", "i_grave", "i_uml", "i_circ"}>>,
    <<"o", {"o_acute", "o_grave", "o_uml", "o_circ"}>>,
    <<"u", {"u_acute", "u_grave", "u_uml", "u_circ"}>>,
    <<"n", {"n_tilde"}>> >>

AccentedChars == UNION {AccentTable[k][2] : k \in DOMAIN AccentTable}

\* \w of the re module: letters (accented ones too), digits and "_"
WordChar(c) ==
    c \in LowerSet \/ c \in UpperSet \/ c \in Digits \/ c = "_" \/ c \in AccentedChars

(***************************************************************************)
(* A Python set of strings is visited in an order fixed by the process's   *)
(* string-hash seed, which differs from one process to the next.  The      *)
(* model lets a process have one of two orders: the listed order (seed 0)  *)
(* or its reverse.                                                         *)
(***************************************************************************)
Reverse(s) == [i \in 1..Len(s) |-> s[Len(s) + 1 - i]]

SetOrder(elems, seed) == IF seed = 0 THEN elems ELSE Reverse(elems)

\* the distinct elements of a list, in order of first occurrence
RECURSIVE Distinct(_)
Distinct(s) ==
    IF s = <<>> THEN <<>>
    ELSE LET d == Distinct(SubSeq(s, 1, Len(s) - 1))
         IN  IF s[Len(s)] \in Range(d) THEN d ELSE Append(d, s[Len(s)])

(***************************************************************************)
(* token_matcher.py: normalize_text, expand_with_synonyms                  *)
(***************************************************************************)
Unaccent(c) ==
    IF c \in AccentedChars
    THEN AccentTable[CHOOSE k \in DOMAIN AccentTable : c \in AccentTable[k][2]][1]
    ELSE c

normalize_text(text) ==
    IF text = <<>> THEN <<>>
    ELSE LET lowered  == str_lower(text)
             plain    == [i \in DOMAIN lowered |-> Unaccent(lowered[i])]
             spaced   == [i \in DOMAIN plain |->
                            IF WordChar(plain[i]) \/ plain[i] \in Whitespace
                            THEN plain[i] ELSE " "]
         IN  \* re.sub(r'\s+', ' ', text).strip()
             str_join(<<" ">>, str_split(spaced))

\* what one entry of SYNONYMS appends to the text
ExpandOne(text_lower, main_term, synonyms) ==
    (IF \E i \in DOMAIN synonyms : str_contains(synonyms[i], text_lower)
     THEN <<" ">> \o main_term ELSE <<>>)
    \o (IF str_contains(main_term, text_lower) /\ synonyms # <<>>
        THEN <<" ">> \o synonyms[1] ELSE <<>>)

RECURSIVE ExpandFrom(_, _)
ExpandFrom(text_lower, k) ==
    IF k > Len(SYNONYMS) THEN <<>>
    ELSE ExpandOne(text_lower, SYNONYMS[k][1], SYNONYMS[k][2]) \o ExpandFrom(text_lower, k + 1)

expand_with_synonyms(text) == str_lower(text) \o ExpandFrom(str_lower(text), 1)

(***************************************************************************)
(* token_matcher.py: the regular expressions of extract_tokens             *)
(***************************************************************************)
\* the number of consecutive characters of class C in s from position i on
RECURSIVE RunLen(_, _, _)
RunLen(s, i, C) ==
    IF i <= Len(s) /\ s[i] \in C THEN 1 + RunLen(s, i + 1, C) ELSE 0

CharAt(s, i) == IF i \in DOMAIN s THEN s[i] ELSE ""

\* \b before position i / after the match that ends just before position e
BoundaryBefore(s, i) == i = 1 \/ ~WordChar(s[i - 1])
BoundaryAfter(s, e) == e > Len(s) \/ ~WordChar(s[e])

(* PatternEnd(k, s, i): the position just after the match of MODEL_PATTERNS[k]
   that starts at i, or 0 if it does not match there.  Every quantified class
   is followed by a class disjoint from it or by \b, so the greedy match is
   the only candidate. *)
PatternEnd(k, s, i) ==
    LET L1 == RunLen(s, i, UpperSet)
        D1 == RunLen(s, i, Digits)
    IN  IF ~BoundaryBefore(s, i) THEN 0
        ELSE IF k = 1 THEN   \* \b[A-Z]{2,}\d{3,}[A-Z]*\b
            LET D == RunLen(s, i + L1, Digits)
                e == i + L1 + D + RunLen(s, i + L1 + D, UpperSet)
            IN  IF L1 >= 2 /\ D >= 3 /\ BoundaryAfter(s, e) THEN e ELSE 0
        ELSE IF k = 2 THEN   \* \b[A-Z]\d{2}[A-Z]{2,}\d*\b
            LET L == RunLen(s, i + 3, UpperSet)
                e == i + 3 + L + RunLen(s, i + 3 + L, Digits)
            IN  IF /\ CharAt(s, i) \in UpperSet
                   /\ CharAt(s, i + 1) \in Digits /\ CharAt(s, i + 2) \in Digits
                   /\ L >= 2 /\ BoundaryAfter(s, e)
                THEN e ELSE 0
        ELSE IF k = 3 THEN   \* \b\d{4,}[A-Z]+\b
            LET L == RunLen(s, i + D1, UpperSet)
                e == i + D1 + L
            IN  IF D1 >= 4 /\ L >= 1 /\ BoundaryAfter(s, e) THEN e ELSE 0
        ELSE IF k = 4 THEN   \* \b[A-Z]{1,3}-?\d{3,}[A-Z]*\b
            LET h == IF CharAt(s, i + L1) = "-" THEN 1 ELSE 0
                D == RunLen(s, i + L1 + h, Digits)
                e == i + L1 + h + D + RunLen(s, i + L1 + h + D, UpperSet)
            IN  IF L1 >= 1 /\ L1 <= 3 /\ D >= 3 /\ BoundaryAfter(s, e) THEN e ELSE 0
        ELSE IF k = 5 THEN   \* \b[A-Z]{2,}\d+[-/][A-Z0-9]+\b
            LET D == RunLen(s, i + L1, Digits)
                A == RunLen(s, i + L1 + D + 1, UpperSet \cup Digits)
                e == i + L1 + D + 1 + A
            IN  IF /\ L1 >= 2 /\ D >= 1 /\ CharAt(s, i + L1 + D) \in {"-", "/"}
                   /\ A >= 1 /\ BoundaryAfter(s, e)
                THEN e ELSE 0
        ELSE                 \* \b\d{2,}[A-Z]{2,}\d+\b
            LET L == RunLen(s, i + D1, UpperSet)
                D == RunLen(s, i + D1 + L, Digits)
                e == i + D1 + L + D
            IN  IF D1 >= 2 /\ L >= 2 /\ D >= 1 /\ BoundaryAfter(s, e) THEN e ELSE 0

\* the leftmost match, given for every start position the end of the match
\* there (0 if none): <<>> if there is no match
LeftmostMatch(s, ends) ==
    IF \E i \in DOMAIN ends : ends[i] > 0
    THEN LET i == CHOOSE i \in DOMAIN ends : ends[i] > 0 /\ \A j \in 1..(i - 1) : ends[j] = 0
         IN  SubSeq(s, i, ends[i] - 1)
    ELSE <<>>

\* re.search(MODEL_PATTERNS[k], s)
PatternSearch(k, s) == LeftmostMatch(s, [i \in DOMAIN s |-> PatternEnd(k, s, i)])

\* the first entry of found that is not <<>>, <<>> if there is none
FirstFound(found) ==
    IF \E k \in DOMAIN found : found[k] # <<>>
    THEN found[CHOOSE k \in DOMAIN found :
                  found[k] # <<>> /\ \A j \in 1..(k - 1) : found[j] = <<>>]
    ELSE <<>>

\* the loop over MODEL_PATTERNS: the first pattern that matches decides
FirstModel(s) == FirstFound([k \in 1..ModelPatternCount |-> PatternSearch(k, s)])

\* the length of the first unit of NumberUnits that s has at position i, or 0
UnitLenAt(s, i) ==
    LET hit(k) == \A n \in 1..Len(NumberUnits[k]) : s[i + n - 1] = NumberUnits[k][n]
    IN  IF \E k \in DOMAIN NumberUnits : i + Len(NumberUnits[k]) - 1 <= Len(s) /\ hit(k)
        THEN Len(NumberUnits[CHOOSE k \in DOMAIN NumberUnits :
                    /\ i + Len(NumberUnits[k]) - 1 <= Len(s) /\ hit(k)
                    /\ \A j \in 1..(k - 1) :
                          ~(i + Len(NumberUnits[j]) - 1 <= Len(s) /\ hit(j))])
        ELSE 0

(* re.findall(r'\d+(?:[.,]\d+)?(?:\s*(?:gb|tb|...))?', s) from position i on:
   the matches, left to right, non-overlapping *)
RECURSIVE NumberMatches(_, _)
NumberMatches(s, i) ==
    IF i > Len(s) THEN <<>>
    ELSE IF s[i] \notin Digits THEN NumberMatches(s, i + 1)
    ELSE LET j  == i + RunLen(s, i, Digits)
             F  == IF CharAt(s, j) \in {".", ","} /\ RunLen(s, j + 1, Digits) >= 1
                   THEN 1 + RunLen(s, j + 1, Digits) ELSE 0
             W  == RunLen(s, j + F, Whitespace)
             U  == UnitLenAt(s, j + F + W)
             e  == IF U > 0 THEN j + F + W + U ELSE j + F
         IN  <<SubSeq(s, i, e - 1)>> \o NumberMatches(s, e)

\* re.findall(r'\d+', s): the maximal runs of digits
RECURSIVE DigitRuns(_, _)
DigitRuns(s, i) ==
    IF i > Len(s) THEN {}
    ELSE IF s[i] \notin Digits THEN DigitRuns(s, i + 1)
    ELSE {SubSeq(s, i, i + RunLen(s, i, Digits) - 1)}
            \cup DigitRuns(s, i + RunLen(s, i, Digits))

(***************************************************************************)
(* token_matcher.py: extract_tokens                                        *)
(***************************************************************************)
\* the known brands a text contains, in the order the set is visited
BrandsIn(normalized, seed) ==
    SelectSeq(SetOrder(KNOWN_BRANDS, seed), LAMBDA b : str_contains(b, normalized))

\* the loop over the brands stops at the first hit
first_brand(hits) == IF hits = <<>> THEN <<>> ELSE hits[1]

\* the words that become tokens: two characters or more, no stop word
word_tokens(words) == {w \in Range(words) : Len(w) >= 2 /\ w \notin STOP_WORDS}

\* the numbers that become tokens, without their blanks
number_tokens(numbers) ==
    {str_replace(numbers[i], <<" ">>, <<>>) : i \in {n \in DOMAIN numbers : Len(numbers[n]) >= 2}}

\* the ExtractedTokens of a title with the given normalized text and model
tokens_from(normalized, model, seed) ==
    [tokens |-> word_tokens(str_split(normalized)) \cup number_tokens(NumberMatches(normalized, 1)),
     brand |-> first_brand(BrandsIn(normalized, seed)),
     model |-> model]

\* a str that is None or empty is <<>>
extract_tokens(title, seed) ==
    IF title = <<>> THEN [tokens |-> {}, brand |-> <<>>, model |-> <<>>]
    ELSE tokens_from(normalize_text(expand_with_synonyms(title)),
                     FirstModel(str_upper(title)), seed)

\* extract_tokens is a pure function of the title and the set order: its value
\* for the titles of the model's inputs is computed once
ExtractTokensMemo == {<<t, s, extract_tokens(t, s)>> : t \in AllTitles, s \in Seeds}

tokens_of(title, seed) ==
    (CHOOSE m \in ExtractTokensMemo : m[1] = title /\ m[2] = seed)[3]

(***************************************************************************)
(* difflib.SequenceMatcher(None, a, b).ratio(), for strings shorter than   *)
(* 200 characters (no automatic junk)                                      *)
(***************************************************************************)
\* the length of the common run of a from i and b from j, inside the windows
RECURSIVE CommonRun(_, _, _, _, _, _)
CommonRun(a, b, i, j, ahi, bhi) ==
    IF i < ahi /\ j < bhi /\ a[i] = b[j]
    THEN 1 + CommonRun(a, b, i + 1, j + 1, ahi, bhi)
    ELSE 0

\* find_longest_match over a[alo..ahi) and b[blo..bhi): <<i, j, size>>, the
\* longest block, of those the one earliest in a, of those the one earliest in b
LongestMatch(a, b, alo, ahi, blo, bhi) ==
    LET cand == {<<i, j>> : i \in alo..(ahi - 1), j \in blo..(bhi - 1)}
        size(c) == CommonRun(a, b, c[1], c[2], ahi, bhi)
        better(c, d) == \/ size(c) > size(d)
                        \/ size(c) = size(d) /\ c[1] < d[1]
                        \/ size(c) = size(d) /\ c[1] = d[1] /\ c[2] <= d[2]
    IN  IF cand = {} THEN <<alo, blo, 0>>
        ELSE LET best == CHOOSE c \in cand : \A d \in cand : better(c, d)
             IN  <<best[1], best[2], size(best)>>

\* the number of characters in the matching blocks
RECURSIVE MatchedChars(_, _, _, _, _, _)
MatchedChars(a, b, alo, ahi, blo, bhi) ==
    LET m == LongestMatch(a, b, alo, ahi, blo, bhi)
    IN  IF m[3] = 0 THEN 0
        ELSE m[3] + MatchedChars(a, b, alo, m[1], blo, m[2])
                  + MatchedChars(a, b, m[1] + m[3], ahi, m[2] + m[3], bhi)

\* ratio() = 2.0 * matches / (len(a) + len(b)), 1.0 for two empty strings
SequenceMatcherRatio(a, b) ==
    IF Len(a) + Len(b) = 0 THEN <<1, 1>>
    ELSE Frac(2 * MatchedChars(a, b, 1, Len(a) + 1, 1, Len(b) + 1), Len(a) + Len(b))

(***************************************************************************)
(* token_matcher.py: calculate_token_match (default weights, in            *)
(* hundredths)                                                             *)
(***************************************************************************)
brand_weight == 25
model_weight == 35
token_weight == 40

EXACT == "exact"
VERY_SIMILAR == "very_similar"
SIMILAR == "similar"
RELATED == "related"
DIFFERENT == "different"

FracAdd(a, b) == Frac(a[1] * b[2] + b[1] * a[2], a[2] * b[2])

FracMul(a, b) == Frac(a[1] * b[1], a[2] * b[2])

\* a level taken from the score alone
token_level_by_score(model_match, score) ==
    IF FracGeq(score, <<90, 100>>) THEN EXACT
    ELSE IF FracGeq(score, <<75, 100>>) THEN VERY_SIMILAR
    ELSE IF FracGeq(score, <<50, 100>>) THEN SIMILAR
    ELSE IF FracGeq(score, <<30, 100>>) THEN RELATED
    ELSE DIFFERENT

\* the level of a score: the threshold chain at the end of calculate_token_match
token_level(model_match, score) ==
    IF model_match \/ FracGeq(score, <<90, 100>>) THEN EXACT
    ELSE IF FracGeq(score, <<75, 100>>) THEN VERY_SIMILAR
    ELSE IF FracGeq(score, <<50, 100>>) THEN SIMILAR
    ELSE IF FracGeq(score, <<30, 100>>) THEN RELATED
    ELSE DIFFERENT

\* 1. brand: the full weight on a match, a fifth of it when only one title
\* has a brand
brand_part(p, r) ==
    IF p.brand # <<>> /\ r.brand # <<>>
    THEN (IF p.brand = r.brand THEN <<brand_weight, 100>> ELSE <<0, 1>>)
    ELSE IF p.brand # <<>> \/ r.brand # <<>> THEN Frac(brand_weight * 2, 1000)
    ELSE <<0, 1>>

brand_match(p, r) == p.brand # <<>> /\ r.brand # <<>> /\ p.brand = r.brand

\* 2. model / SKU: the full weight on a match, a share of it above a
\* similarity of 0.7
model_match(p, r) ==
    p.model # <<>> /\ r.model # <<>> /\ str_upper(p.model) = str_upper(r.model)

model_part_of(both_models, matches, model_sim) ==
    IF ~both_models THEN <<0, 1>>
    ELSE IF matches THEN <<model_weight, 100>>
    ELSE IF FracLess(<<7, 10>>, model_sim) THEN FracMul(<<model_weight, 100>>, model_sim)
    ELSE <<0, 1>>

model_part(p, r) ==
    model_part_of(p.model # <<>> /\ r.model # <<>>, model_match(p, r),
                  SequenceMatcherRatio(str_upper(p.model), str_upper(r.model)))

\* the weight for the share of the tokens that are not common
token_part_of_unmatched(p, r) ==
    IF p.tokens \cup r.tokens # {}
    THEN FracMul(<<token_weight, 100>>,
                 Frac(Cardinality((p.tokens \cup r.tokens) \ (p.tokens \cap r.tokens)),
                      Cardinality(p.tokens \cup r.tokens)))
    ELSE <<0, 1>>

\* 3. tokens: the Jaccard similarity
token_part(p, r) ==
    IF p.tokens \cup r.tokens # {}
    THEN FracMul(<<token_weight, 100>>,
                 Frac(Cardinality(p.tokens \cap r.tokens), Cardinality(p.tokens \cup r.tokens)))
    ELSE <<0, 1>>

\* 4. the numbers of the original titles
number_part(p_numbers, r_numbers) ==
    IF p_numbers # {} /\ r_numbers # {}
    THEN FracMul(<<10, 100>>,
                 Frac(Cardinality(p_numbers \cap r_numbers),
                      MaxOf({Cardinality(p_numbers), Cardinality(r_numbers)})))
    ELSE <<0, 1>>

\* min(score, 1.0)
capped(total) == IF FracLess(<<1, 1>>, total) THEN <<1, 1>> ELSE total

\* the TokenMatchResult of two ExtractedTokens with the given score
match_result(p, r, score) ==
    [score |-> score,
     level |-> token_level(model_match(p, r), score),
     matched_tokens |-> p.tokens \cap r.tokens,
     unmatched_tokens |-> (p.tokens \cup r.tokens) \ (p.tokens \cap r.tokens),
     brand_match |-> brand_match(p, r),
     model_match |-> model_match(p, r)]

match_tokens(p, r, p_numbers, r_numbers) ==
    match_result(p, r,
        capped(FracAdd(FracAdd(brand_part(p, r), model_part(p, r)),
                       FracAdd(token_part(p, r), number_part(p_numbers, r_numbers)))))

calculate_token_match(product_title, reference_title, seed) ==
    match_tokens(tokens_of(product_title, seed), tokens_of(reference_title, seed),
                 DigitRuns(product_title, 1), DigitRuns(reference_title, 1))

\* calculate_token_match, computed once for the titles of the model's inputs
TokenMatchMemo ==
    {<<a, b, s, calculate_token_match(a, b, s)>> : a \in AllTitles, b \in AllTitles, s \in Seeds}

token_match_of(product_title, reference_title, seed) ==
    (CHOOSE m \in TokenMatchMemo :
        m[1] = product_title /\ m[2] = reference_title /\ m[3] = seed)[4]

\* the key of a title in the dict of cluster_by_brand
brand_key(tokens) ==
    IF tokens.brand = <<>> THEN <<"o", "t", "r", "a", "s">> ELSE tokens.brand

\* the groups of equal keys, in order of first occurrence: <<key, indices>>
group_by_key(keys_of, keys) ==
    [k \in DOMAIN keys |->
        <<keys[k], SelectSeq(Indices(keys_of), LAMBDA i : keys_of[i] = keys[k])>>]

group_keys(keys_of) == group_by_key(keys_of, Distinct(keys_of))

\* cluster_by_brand: the dict as a sequence of <<brand key, member indices>>
\* in insertion order; titles[i] is the title of product i
cluster_by_brand(titles, seed) ==
    group_keys([i \in DOMAIN titles |-> brand_key(tokens_of(titles[i], seed))])

(***************************************************************************)
(* models.py: Product, ProductSpecs, ProductCluster, PriceAnalysis         *)
(*                                                                         *)
(* A reference to a Product object is the 1-based index of the object in   *)
(* the product list it comes from; 0 is None.  An Optional[int] or         *)
(* Optional[float] that is None is 0: the code only tests such a value     *)
(* for truth.                                                              *)
(***************************************************************************)
\* ProductSpecs(...) given the fields the clustering reads; the other fields
\* the matcher reads are at their dataclass defaults.  screen_size, a float
\* in inches, is counted in tenths of an inch.
ProductSpecs(brand, series, gpu_tier, processor_gen, gpu) ==
    [brand |-> brand, series |-> series, model_code |-> <<>>, processor |-> <<>>,
     processor_gen |-> processor_gen, ram_gb |-> 0, storage_gb |-> 0, gpu |-> gpu,
     gpu_tier |-> gpu_tier, screen_size |-> 0]

get_tier_key(specs) ==
    specs.brand \o <<"_">> \o specs.series \o <<"_">> \o specs.gpu_tier
        \o <<"_">> \o specs.processor_gen

\* Product(...) with its derived fields at their defaults
\* `specs` is the ProductSpecs that matcher.py reads from a product; the
\* dataclass of models.py declares no such field, so on its products
\* `product.specs` raises AttributeError
Product(title, store, url, price, original_price, is_offer, is_your_product, specs) ==
    [title |-> title, store |-> store, url |-> url, price |-> price,
     original_price |-> original_price, is_offer |-> is_offer,
     match_level |-> DIFFERENT, match_score |-> <<0, 1>>,
     price_diff_pct |-> <<0, 1>>, price_diff_abs |-> 0,
     is_your_product |-> is_your_product, specs |-> specs]

has_price(p) == p.price > 0

\* Product.discount_pct: a fraction, or <<0, 1>> for None
discount_pct(p) ==
    IF p.original_price # 0 /\ p.original_price > p.price
    THEN Frac((p.original_price - p.price) * 100, p.original_price)
    ELSE <<0, 1>>

ProductCluster(key, name, products) == [key |-> key, name |-> name, products |-> products]

\* AnalysisConfig(...) with match_by_specs at its default
AnalysisConfig(your_domain, your_price, your_product_url, product_query) ==
    [your_domain |-> your_domain, your_price |-> your_price,
     your_product_url |-> your_product_url, product_query |-> product_query,
     match_by_specs |-> TRUE]

\* PriceAnalysis(query, your_domain, your_price) with every other field at its default
PriceAnalysis(query, your_domain, your_price) ==
    [query |-> query, your_domain |-> your_domain, your_price |-> your_price,
     your_product |-> 0,
     your_serp_position |-> 0, your_price_rank |-> 0, your_price_rank_in_cluster |-> 0,
     total_products |-> 0, total_with_price |-> 0, total_stores |-> 0,
     min_price |-> 0, max_price |-> 0, avg_price |-> <<0, 1>>, median_price |-> <<0, 1>>,
     cheapest |-> 0, products_cheaper |-> 0, products_same |-> 0, products_expensive |-> 0,
     clusters |-> <<>>, your_cluster |-> 0,
     all_products |-> <<>>, your_store_products |-> <<>>, exact_matches |-> <<>>,
     recommendations |-> <<>>]

\* the first index at which the sequence of booleans is TRUE, 0 if there is none
FirstIndex(tests) ==
    IF \E i \in DOMAIN tests : tests[i]
    THEN CHOOSE i \in DOMAIN tests : tests[i] /\ \A j \in 1..(i - 1) : ~tests[j]
    ELSE 0

(***************************************************************************)
(* analyzer.py: identify_your_product                                      *)
(***************************************************************************)
WWW == <<"w", "w", "w", ".">>

\* "needle in haystack" of the domain match, on the lower-cased store and URL
domain_in_product(your_domain_clean, p) ==
    \/ str_contains(your_domain_clean, str_lower(p.store))
    \/ str_contains(your_domain_clean, str_lower(p.url))

\* a sort key that takes the missing price of a candidate for a distance of 0
price_distance_keys_unpriced_first(products, candidates, your_price) ==
    [k \in DOMAIN candidates |->
        IF products[candidates[k]].price # 0
        THEN Abs(products[candidates[k]].price - your_price) ELSE 0]

\* the key of candidates.sort(): float('inf') is a key above every distance
price_distance_keys(products, candidates, your_price) ==
    LET dist(i) == Abs(products[i].price - your_price)
        inf == 1 + MaxOf({dist(candidates[k]) : k \in DOMAIN candidates})
    IN  [k \in DOMAIN candidates |->
            IF products[candidates[k]].price # 0 THEN dist(candidates[k]) ELSE inf]

\* an identification without the first loop, the one of the equal URL
identify_without_equal_url(products, your_domain, your_price, your_url) ==
    LET your_url_clean == str_strip(str_lower(your_url))
        url_partial(i) == /\ products[i].url # <<>>
                          /\ \/ str_contains(your_url_clean, str_lower(products[i].url))
                             \/ str_contains(str_lower(products[i].url), your_url_clean)
        your_domain_clean == str_strip(str_replace(str_lower(your_domain), WWW, <<>>))
        candidates == SelectSeq(Indices(products),
                          LAMBDA i : domain_in_product(your_domain_clean, products[i]))
    IN  IF your_url # <<>> /\ FirstIndex([i \in DOMAIN products |-> url_partial(i)]) # 0
            THEN FirstIndex([i \in DOMAIN products |-> url_partial(i)])
        ELSE IF candidates = <<>> THEN 0
        ELSE IF Len(candidates) = 1 THEN candidates[1]
        ELSE IF your_price > 0
            THEN StableSortByKey(candidates,
                     price_distance_keys(products, candidates, your_price))[1]
        ELSE candidates[1]

identify_your_product(products, your_domain, your_price, your_url) ==
    LET your_url_clean == str_strip(str_lower(your_url))
        url_exact(i) == /\ products[i].url # <<>>
                        /\ str_strip(str_lower(products[i].url)) = your_url_clean
        url_partial(i) == /\ products[i].url # <<>>
                          /\ \/ str_contains(your_url_clean, str_lower(products[i].url))
                             \/ str_contains(str_lower(products[i].url), your_url_clean)
        your_domain_clean == str_strip(str_replace(str_lower(your_domain), WWW, <<>>))
        candidates == SelectSeq(Indices(products),
                          LAMBDA i : domain_in_product(your_domain_clean, products[i]))
    IN  IF your_url # <<>> /\ FirstIndex([i \in DOMAIN products |-> url_exact(i)]) # 0
            THEN FirstIndex([i \in DOMAIN products |-> url_exact(i)])
        ELSE IF your_url # <<>> /\ FirstIndex([i \in DOMAIN products |-> url_partial(i)]) # 0
            THEN FirstIndex([i \in DOMAIN products |-> url_partial(i)])
        ELSE IF candidates = <<>> THEN 0
        ELSE IF Len(candidates) = 1 THEN candidates[1]
        ELSE IF your_price > 0
            THEN StableSortByKey(candidates,
                     price_distance_keys(products, candidates, your_price))[1]
        ELSE candidates[1]

(***************************************************************************)
(* matcher.py: cluster_products; analyzer.py: cluster_products_by_brand    *)
(* A cluster's products are indices into the list that was passed in.      *)
(***************************************************************************)
\* the clusters as the dict holds them, unsorted
clusters_in_insertion_order(clusters) == clusters

\* sorted(clusters, key=lambda c: len(c.products), reverse=True): stable
sort_by_size_desc(clusters) ==
    StableSortByKey(clusters, [k \in DOMAIN clusters |-> 0 - Len(clusters[k].products)])

\* the readable name cluster_products builds from the specs of a product
tier_cluster_name(specs) ==
    LET parts == (IF specs.brand # <<>> THEN <<specs.brand>> ELSE <<>>)
                 \o (IF specs.series # <<>> THEN <<specs.series>> ELSE <<>>)
                 \o (IF specs.gpu_tier # <<>> THEN <<specs.gpu_tier>>
                     ELSE IF specs.gpu # <<>> THEN <<specs.gpu>> ELSE <<>>)
    IN  IF parts = <<>> THEN <<"O", "t", "r", "o", "s">> ELSE str_join(<<" ">>, parts)

cluster_products(products) ==
    LET priced == SelectSeq(Indices(products), LAMBDA i : has_price(products[i]))
        key(i) == get_tier_key(products[i].specs)
        keys   == Distinct([k \in DOMAIN priced |-> key(priced[k])])
        first(k) == priced[FirstIndex([n \in DOMAIN priced |-> key(priced[n]) = keys[k]])]
        clusters == [k \in DOMAIN keys |->
                        ProductCluster(keys[k], tier_cluster_name(products[first(k)].specs),
                                       SelectSeq(priced, LAMBDA i : key(i) = keys[k]))]
    IN  sort_by_size_desc(clusters)

(***************************************************************************)
(* matcher.py: calculate_match_score                                       *)
(*                                                                         *)
(* The weights and the score are counted in hundredths.  max_score, the    *)
(* double-precision sum of the seven weights, is exactly 1.0.              *)
(***************************************************************************)
\* the weight each field earns, in the order the code adds them to score:
\* brand, series, gpu tier, processor generation, ram, storage, screen
earned_weights(p1, p2) ==
    << IF p1.brand # <<>> /\ p2.brand # <<>> /\ str_upper(p1.brand) = str_upper(p2.brand)
       THEN 15 ELSE 0,
       IF p1.series # <<>> /\ p2.series # <<>>
       THEN IF str_upper(p1.series) = str_upper(p2.series) THEN 15
            ELSE IF p1.brand = p2.brand THEN 5 ELSE 0
       ELSE 0,
       IF p1.gpu_tier # <<>> /\ p2.gpu_tier # <<>>
       THEN IF p1.gpu_tier = p2.gpu_tier THEN 25
            ELSE IF p1.gpu # <<>> /\ p2.gpu # <<>> THEN 10 ELSE 0
       ELSE IF p1.gpu # <<>> /\ p2.gpu # <<>>
            THEN IF str_upper(p1.gpu) = str_upper(p2.gpu) THEN 25 ELSE 0
            ELSE 0,
       IF p1.processor_gen # <<>> /\ p2.processor_gen # <<>>
       THEN IF p1.processor_gen = p2.processor_gen THEN 15 ELSE 5
       ELSE IF p1.processor # <<>> /\ p2.processor # <<>>
            THEN IF str_upper(p1.processor) = str_upper(p2.processor) THEN 15 ELSE 0
            ELSE 0,
       IF p1.ram_gb # 0 /\ p2.ram_gb # 0
       THEN IF p1.ram_gb = p2.ram_gb THEN 15
            ELSE IF Abs(p1.ram_gb - p2.ram_gb) <= 8 THEN 8 ELSE 0
       ELSE 0,
       IF p1.storage_gb # 0 /\ p2.storage_gb # 0
       THEN IF p1.storage_gb = p2.storage_gb THEN 10
            ELSE IF Abs(p1.storage_gb - p2.storage_gb) <= 512 THEN 5 ELSE 0
       ELSE 0,
       IF p1.screen_size # 0 /\ p2.screen_size # 0
       THEN IF Abs(p1.screen_size - p2.screen_size) < 5 THEN 5 ELSE 0
       ELSE 0 >>

\* max_score after the seven unconditional additions
max_score_of(p1, p2) == 15 + 15 + 25 + 15 + 15 + 10 + 5

\* The earned weights that sum to 0.5 on paper and to 0.49999999999999994
\* when added as doubles in the order of the code.
SumsBelowHalf ==
    {<<0, 0, 25, 5, 15, 0, 5>>, <<0, 0, 25, 5, 15, 5, 0>>, <<0, 15, 0, 15, 15, 0, 5>>,
     <<0, 15, 0, 15, 15, 5, 0>>, <<0, 15, 0, 5, 15, 10, 5>>, <<0, 15, 10, 5, 15, 0, 5>>,
     <<0, 15, 10, 5, 15, 5, 0>>, <<0, 5, 0, 15, 15, 10, 5>>, <<0, 5, 25, 0, 15, 0, 5>>,
     <<0, 5, 25, 0, 15, 5, 0>>, <<0, 5, 25, 15, 0, 0, 5>>, <<0, 5, 25, 15, 0, 5, 0>>,
     <<0, 5, 25, 5, 0, 10, 5>>, <<0, 5, 10, 5, 15, 10, 5>>, <<15, 0, 0, 15, 15, 0, 5>>,
     <<15, 0, 0, 15, 15, 5, 0>>, <<15, 0, 0, 5, 15, 10, 5>>, <<15, 0, 10, 5, 15, 0, 5>>,
     <<15, 0, 10, 5, 15, 5, 0>>, <<15, 15, 0, 0, 15, 0, 5>>, <<15, 15, 0, 0, 15, 5, 0>>,
     <<15, 15, 0, 15, 0, 0, 5>>, <<15, 15, 0, 15, 0, 5, 0>>, <<15, 15, 0, 5, 0, 10, 5>>,
     <<15, 5, 0, 0, 15, 10, 5>>, <<15, 5, 0, 15, 0, 10, 5>>}

\* What a call of calculate_match_score does: it returns (score, level), or
\* it raises.  MatchLevel has no member EQUIVALENT, so the branch of a final
\* score in [0.70, 0.90) raises AttributeError.
Returned(score, level) == [raised |-> "", score |-> score, level |-> level]
Raised(error) == [raised |-> error, score |-> <<0, 1>>, level |-> DIFFERENT]

\* the scoring of calculate_match_score after the model-code test
score_by_fields(p1, p2) ==
    LET earned      == earned_weights(p1, p2)
        score       == SumSeq(earned)
        max_score   == max_score_of(p1, p2)
        final_score == IF max_score > 0 THEN Frac(score, max_score) ELSE <<0, 1>>
    IN  IF FracGeq(final_score, <<90, 100>>) THEN Returned(final_score, EXACT)
        ELSE IF FracGeq(final_score, <<70, 100>>) THEN Raised("AttributeError")
        ELSE IF FracGeq(final_score, <<50, 100>>) /\ earned \notin SumsBelowHalf
             THEN Returned(final_score, SIMILAR)
        ELSE Returned(final_score, DIFFERENT)

calculate_match_score_by_fields_only(p1, p2) == score_by_fields(p1, p2)

\* calculate_match_score(product, reference), p1 and p2 being the specs of
\* the two products
calculate_match_score(p1, p2) ==
    IF /\ p1.model_code # <<>> /\ p2.model_code # <<>>
       /\ str_upper(p1.model_code) = str_upper(p2.model_code)
    THEN Returned(<<1, 1>>, EXACT)
    ELSE score_by_fields(p1, p2)

\* str.title(): a letter is upper-cased after a non-letter, lower-cased after a letter
str_title(s) ==
    [i \in DOMAIN s |->
        IF i > 1 /\ (s[i - 1] \in LowerSet \/ s[i - 1] \in UpperSet)
        THEN LowerChar(s[i]) ELSE UpperChar(s[i])]

OTRAS == <<"o", "t", "r", "a", "s">>

\* the ProductCluster of every brand group that has products
brand_clusters(brand_groups) ==
    LET nonempty == SelectSeq(brand_groups, LAMBDA g : g[2] # <<>>)
    IN  [k \in DOMAIN nonempty |->
            ProductCluster(nonempty[k][1],
                IF nonempty[k][1] # OTRAS THEN str_title(nonempty[k][1])
                ELSE <<"O","t","r","a","s"," ","m","a","r","c","a","s">>,
                nonempty[k][2])]

cluster_products_by_brand(products, seed) ==
    sort_by_size_desc(
        brand_clusters(cluster_by_brand([i \in DOMAIN products |-> products[i].title], seed)))

(***************************************************************************)
(* analyzer.py: generate_recommendations                                   *)
(*                                                                         *)
(* A Recommendation keeps the fixed text of its title; `args` is the tuple *)
(* of the values its description, action and impact interpolate, in order. *)
(***************************************************************************)
Recommendation(type, priority, title, args, data) ==
    [type |-> type, priority |-> priority, title |-> title, args |-> args, data |-> data]

\* priority_order.get(r.priority, 3)
priority_order(priority) ==
    IF priority = "high" THEN 0
    ELSE IF priority = "medium" THEN 1
    ELSE IF priority = "low" THEN 2
    ELSE 3

\* a sort that is not stable: equal priorities come out in reverse
sort_by_priority_unstable(recommendations) ==
    StableSortByKey(Reverse(recommendations),
        [k \in DOMAIN recommendations |->
            priority_order(Reverse(recommendations)[k].priority)])

\* recommendations.sort(key=lambda r: priority_order.get(r.priority, 3))
sort_by_priority(recommendations) ==
    StableSortByKey(recommendations,
        [k \in DOMAIN recommendations |-> priority_order(recommendations[k].priority)])

\* the priced products of a list, as indices, in list order
priced_indices(products) == SelectSeq(Indices(products), LAMBDA i : has_price(products[i]))

\* the items as they come, unsorted
sort_by_price_in_list_order(products, items) == items

\* the items from the highest price to the lowest
sort_by_price_descending(products, items) ==
    StableSortByKey(items, [k \in DOMAIN items |-> 0 - products[items[k]].price])

\* sorted(items, key=price) for a list of indices into products
sort_by_price(products, items) ==
    StableSortByKey(items, [k \in DOMAIN items |-> products[items[k]].price])

\* min(items, key=price): the first item of the lowest price
min_by_price(products, items) == sort_by_price(products, items)[1]

Take(s, n) == SubSeq(s, 1, IF Len(s) < n THEN Len(s) ELSE n)

\* The pairs of prices of the catalogues whose difference the double
\* subtraction a - b rounds below the difference of the two doubles (530.0 less
\* 530.0 - 12.95 is 12.950000000000045) and above it (500.0 less 500.0 - 12.95
\* is 12.949999999999989).  Every other difference of two of the prices is
\* exact.
DifferencesRoundedDown ==
    {<<1295, 45000>>, <<1295, 48000>>, <<1295, 50000>>, <<1295, 51000>>, <<1295, 52000>>,
     <<53000, 1295>>, <<60000, 1295>>, <<70000, 1295>>, <<90000, 1295>>, <<95000, 1295>>}

DifferencesRoundedUp ==
    {<<1295, 53000>>, <<1295, 60000>>, <<1295, 70000>>, <<1295, 90000>>, <<1295, 95000>>,
     <<45000, 1295>>, <<48000, 1295>>, <<50000, 1295>>, <<51000, 1295>>, <<52000, 1295>>}

\* a - b on two prices: the cents the double rounds to, and the side of the
\* difference of the two doubles it lies on (-1 below, 0 equal, 1 above)
float_sub(a, b) ==
    [cents |-> a - b,
     rounding |-> IF <<a, b>> \in DifferencesRoundedDown THEN 0 - 1
                  ELSE IF <<a, b>> \in DifferencesRoundedUp THEN 1 ELSE 0]

\* the recommendations in the order the rules append them
appended_recommendations(analysis, config, seed) ==
    LET products   == analysis.all_products
        your_price == config.your_price
        rank       == analysis.your_price_rank
        cheapest   == analysis.cheapest
        by_price   == sort_by_price(products, priced_indices(products))
        \* price recommendation
        gap == float_sub(your_price, products[cheapest].price)
        third_price == IF Len(by_price) >= 3 THEN products[by_price[3]].price
                       ELSE products[cheapest].price
        gap_to_top3 == float_sub(your_price, third_price)
        price_cut ==
            IF cheapest # 0 /\ products[cheapest].price < your_price
            THEN IF rank > 3
                 THEN IF gap_to_top3.cents > 0
                      THEN <<Recommendation("price_reduction", "high",
                                "Reducir precio para competir",
                                <<rank, products[cheapest].store, gap_to_top3.cents, rank>>,
                                [current_rank |-> rank, target_rank |-> 3,
                                 reduction_needed |-> gap_to_top3,
                                 competitor |-> products[cheapest].store])>>
                      ELSE <<>>
                 ELSE IF rank > 1
                      THEN <<Recommendation("price_reduction", "medium",
                                "Oportunidad de liderazgo",
                                <<gap.cents, gap.cents, rank>>,
                                [current_rank |-> rank, reduction_needed |-> gap,
                                 competitor |-> products[cheapest].store])>>
                      ELSE <<>>
            ELSE <<>>
        \* already the cheapest
        second_cheapest == by_price[2]
        margin == float_sub(products[second_cheapest].price, your_price)
        price_rise ==
            IF rank = 1 /\ analysis.total_with_price > 1 /\ Len(by_price) > 1 /\ margin.cents > 2000
            THEN <<Recommendation("price_increase", "medium", "Margen de subida",
                      <<margin.cents, products[second_cheapest].store, Frac(margin.cents * 7, 10)>>,
                      [margin_available |-> margin,
                       recommended_increase |-> Frac(margin.cents * 7, 10),
                       next_competitor |-> products[second_cheapest].store,
                       next_price |-> products[second_cheapest].price])>>
            ELSE <<>>
        \* very similar products that are cheaper
        similar_cheaper == SelectSeq(analysis.exact_matches,
                               LAMBDA i : products[i].price < your_price)
        cheapest_similar == min_by_price(products, similar_cheaper)
        similar_gap == float_sub(your_price, products[cheapest_similar].price)
        similar_alert ==
            IF similar_cheaper # <<>>
            THEN <<Recommendation("similar_product_alert", "high",
                      "Producto muy similar mas barato",
                      <<products[cheapest_similar].store, products[cheapest_similar].price,
                        similar_gap.cents>>,
                      [competitor |-> products[cheapest_similar].store,
                       competitor_price |-> products[cheapest_similar].price,
                       gap |-> similar_gap,
                       product |-> Take(products[cheapest_similar].title, 60)])>>
            ELSE <<>>
        \* offers of competitors
        offers == SelectSeq(Indices(products),
                      LAMBDA i : products[i].is_offer /\ has_price(products[i]))
        aggressive_offers == SelectSeq(offers,
                      LAMBDA i : FracLess(<<15, 1>>, discount_pct(products[i])))
        first3 == Take(aggressive_offers, 3)
        \* list(set(...)): the distinct stores, in the order the set is visited
        stores == SetOrder(Distinct([k \in DOMAIN first3 |-> products[first3[k]].store]), seed)
        first5 == Take(aggressive_offers, 5)
        offer_alert ==
            IF aggressive_offers # <<>>
            THEN <<Recommendation("alert", "high", "competidores con ofertas agresivas",
                      <<Len(aggressive_offers), stores>>,
                      [offers |-> [k \in DOMAIN first5 |->
                                     [store |-> products[first5[k]].store,
                                      discount |-> discount_pct(products[first5[k]]),
                                      price |-> products[first5[k]].price]]])>>
            ELSE <<>>
        \* several products of your store
        own == analysis.your_store_products
        own_note ==
            IF Len(own) > 1
            THEN <<Recommendation("opportunity", "low", "productos tuyos aparecen",
                      <<Len(own)>>,
                      [products |-> [k \in DOMAIN own |->
                                       [title |-> Take(products[own[k]].title, 50),
                                        price |-> products[own[k]].price]]])>>
            ELSE <<>>
        \* you do not appear
        not_visible ==
            IF analysis.your_serp_position = 0 /\ own = <<>>
            THEN <<Recommendation("alert", "high", "No apareces en los resultados",
                      <<>>, <<>>)>>
            ELSE <<>>
    IN  price_cut \o price_rise \o similar_alert \o offer_alert \o own_note \o not_visible

\* the recommendations without the alerts
recommendations_without_alerts(analysis, config, seed) ==
    sort_by_priority(SelectSeq(appended_recommendations(analysis, config, seed),
                               LAMBDA r : r.type # "alert"))

generate_recommendations(analysis, config, seed) ==
    sort_by_priority(appended_recommendations(analysis, config, seed))

(***************************************************************************)
(* analyzer.py: analyze_prices.  The products are mutated in place; the    *)
(* list after the call is the all_products field of the result.            *)
(***************************************************************************)
\* statistics.median of a sorted, non-empty list
median(prices) ==
    LET n == Len(prices)
    IN  IF n % 2 = 1 THEN Frac(prices[(n + 1) \div 2], 1)
        ELSE Frac(prices[n \div 2] + prices[n \div 2 + 1], 2)

\* a rank that also counts the products of the same price
price_rank_with_ties(products, with_price, your_price) ==
    Len(SelectSeq(with_price, LAMBDA i : products[i].price <= your_price)) + 1

\* a rank counted from the most expensive product
price_rank_from_top(products, with_price, your_price) ==
    Len(SelectSeq(with_price, LAMBDA i : products[i].price > your_price)) + 1

\* your_price_rank: one more than the number of cheaper priced products
price_rank(products, with_price, your_price) ==
    Len(SelectSeq(with_price, LAMBDA i : products[i].price < your_price)) + 1

\* the products of your store: the domain is lower-cased and freed of 'www.'
your_store_products(products, your_domain) ==
    LET your_domain_clean == str_replace(str_lower(your_domain), WWW, <<>>)
    IN  SelectSeq(Indices(products),
            LAMBDA i : domain_in_product(your_domain_clean, products[i]))

\* a position counted among the priced products only
serp_position_among_priced(products, your_product) ==
    FirstIndex([k \in DOMAIN priced_indices(products) |->
        \/ products[priced_indices(products)[k]].is_your_product
        \/ /\ your_product # 0
           /\ products[priced_indices(products)[k]].url = products[your_product].url])

\* the first 1-based position of a product that is flagged or has the URL of
\* your product; 0 if the loop finds none
serp_position(products, your_product) ==
    FirstIndex([i \in DOMAIN products |->
        \/ products[i].is_your_product
        \/ your_product # 0 /\ products[i].url = products[your_product].url])

\* a product after the price-difference loop
with_price_diff(p, your_price) ==
    IF has_price(p) /\ your_price > 0
    THEN [p EXCEPT !.price_diff_abs = p.price - your_price,
                   !.price_diff_pct = Frac((p.price - your_price) * 100, your_price)]
    ELSE p

\* the title the products are matched against
reference_title(products, config, your_product) ==
    IF your_product # 0 THEN products[your_product].title ELSE config.product_query

\* your_product and p.url == your_product.url
has_your_url(products, your_product, i) ==
    your_product # 0 /\ products[i].url = products[your_product].url

\* a product after the matching loop, which visits the priced products only
with_match(p, yours, match) ==
    IF ~has_price(p) THEN p
    ELSE IF yours THEN [p EXCEPT !.match_score = <<1, 1>>, !.match_level = EXACT]
    ELSE [p EXCEPT !.match_score = match.score, !.match_level = match.level]

\* the product list as the two loops leave it
mutated_products(products, config, seed, your_product) ==
    [i \in DOMAIN products |->
        with_match(with_price_diff(products[i], config.your_price),
                   has_your_url(products, your_product, i),
                   token_match_of(products[i].title,
                                  reference_title(products, config, your_product), seed))]

\* a collection that does not skip the products with your URL
exact_matches_with_yours(matched, with_price, your_product) ==
    SelectSeq(with_price, LAMBDA i : matched[i].match_level \in {EXACT, VERY_SIMILAR})

\* exact_matches: the priced products, other than the one with your URL,
\* whose match level is EXACT or VERY_SIMILAR
exact_matches_of(matched, with_price, your_product) ==
    SelectSeq(with_price,
        LAMBDA i : /\ ~has_your_url(matched, your_product, i)
                   /\ matched[i].match_level \in {EXACT, VERY_SIMILAR})

\* clusters whose members index with_price, as clusters whose members index
\* the product list
reindexed(clusters, with_price) ==
    [c \in DOMAIN clusters |->
        [clusters[c] EXCEPT
            !.products = [k \in DOMAIN clusters[c].products |->
                            with_price[clusters[c].products[k]]]]]

\* cluster_products_by_brand(with_price)
price_clusters(matched, with_price, seed) ==
    reindexed(cluster_products_by_brand(
                  [k \in DOMAIN with_price |-> matched[with_price[k]]], seed), with_price)

\* the first cluster that has your product: `in` compares the objects field
\* by field
your_cluster_of(matched, clusters, your_product) ==
    IF your_product = 0 THEN 0
    ELSE FirstIndex([c \in DOMAIN clusters |->
            \E k \in DOMAIN clusters[c].products :
                matched[clusters[c].products[k]] = matched[your_product]])

\* the 1-based position of your product in the cluster sorted by price
position_in(matched, cluster_sorted, your_product) ==
    FirstIndex([k \in DOMAIN cluster_sorted |->
        \/ matched[cluster_sorted[k]].url = matched[your_product].url
        \/ matched[cluster_sorted[k]].is_your_product])

rank_in_cluster(matched, clusters, your_cluster, your_product) ==
    IF your_cluster = 0 THEN 0
    ELSE position_in(matched, sort_by_price(matched, clusters[your_cluster].products),
                     your_product)

\* sorted([p.price for p in with_price])
sorted_prices(products, with_price) ==
    StableSortByKey([k \in DOMAIN with_price |-> products[with_price[k]].price],
                    [k \in DOMAIN with_price |-> products[with_price[k]].price])

\* len(set(p.store for p in with_price if p.store))
count_stores(products, with_price) ==
    Cardinality({products[i].store : i \in {j \in Range(with_price) : products[j].store # <<>>}})

\* the analysis when generate_recommendations is called
before_recommendations(products, config, analysis, with_price, your_product, prices, matched, clusters, your_cluster) ==
    [analysis EXCEPT
        !.all_products = matched,
        !.total_stores = count_stores(products, with_price),
        !.your_product = your_product,
        !.your_store_products = your_store_products(products, config.your_domain),
        !.min_price = prices[1],
        !.max_price = prices[Len(prices)],
        !.avg_price = Frac(SumSeq(prices), Len(prices)),
        !.median_price = median(prices),
        !.cheapest = min_by_price(products, with_price),
        !.your_serp_position = serp_position(products, your_product),
        !.products_cheaper =
            Len(SelectSeq(with_price, LAMBDA i : products[i].price < config.your_price)),
        !.products_same =
            Len(SelectSeq(with_price, LAMBDA i : products[i].price = config.your_price)),
        !.products_expensive =
            Len(SelectSeq(with_price, LAMBDA i : products[i].price > config.your_price)),
        !.your_price_rank = price_rank(products, with_price, config.your_price),
        !.exact_matches = exact_matches_of(matched, with_price, your_product),
        !.clusters = clusters,
        !.your_cluster = your_cluster,
        !.your_price_rank_in_cluster =
            rank_in_cluster(matched, clusters, your_cluster, your_product)]

with_recommendations(analysis, config, seed) ==
    [analysis EXCEPT !.recommendations = generate_recommendations(analysis, config, seed)]

\* the part of analyze_prices after the early return, step by step: each
\* step receives the results of the steps before it
analyze_clustered(products, config, seed, analysis, with_price, your_product, matched, clusters) ==
    with_recommendations(
        before_recommendations(products, config, analysis, with_price, your_product,
            sorted_prices(products, with_price), matched, clusters,
            your_cluster_of(matched, clusters, your_product)),
        config, seed)

analyze_matched(products, config, seed, analysis, with_price, your_product, matched) ==
    analyze_clustered(products, config, seed, analysis, with_price, your_product, matched,
                      price_clusters(matched, with_price, seed))

analyze_identified(products, config, seed, analysis, with_price, your_product) ==
    analyze_matched(products, config, seed, analysis, with_price, your_product,
                    mutated_products(products, config, seed, your_product))

analyze_priced(products, config, seed, analysis, with_price) ==
    analyze_identified(products, config, seed, analysis, with_price,
        identify_your_product(products, config.your_domain, config.your_price,
                              config.your_product_url))

\* an early return that hands back the analysis as it was constructed
analyze_prices_unfilled(products, config, seed) ==
    IF priced_indices(products) = <<>>
    THEN PriceAnalysis(config.product_query, config.your_domain, config.your_price)
    ELSE analyze_priced(products, config, seed,
             [PriceAnalysis(config.product_query, config.your_domain, config.your_price)
                 EXCEPT !.all_products = products,
                        !.total_products = Len(products),
                        !.total_with_price = Len(priced_indices(products))],
             priced_indices(products))

analyze_prices(products, config, seed) ==
    LET with_price == priced_indices(products)
        analysis == [PriceAnalysis(config.product_query, config.your_domain, config.your_price)
                        EXCEPT !.all_products = products,
                               !.total_products = Len(products),
                               !.total_with_price = Len(with_price)]
    IN  IF with_price = <<>> THEN analysis
        ELSE analyze_priced(products, config, seed, analysis, with_price)

(***************************************************************************)
(* Inputs: stores, URLs and seller domains                                 *)
(***************************************************************************)
\* "shop.es"
StoreShop ==
    <<"s","h","o","p",".","e","s">>

\* "Shop.ES"
StoreShopCaps ==
    <<"S","h","o","p",".","E","S">>

\* "Amazon.es"
StoreAmazon ==
    <<"A","m","a","z","o","n",".","e","s">>

\* "https://www.shop.es/p1"
UrlP1 ==
    <<"h","t","t","p","s",":","/","/","w","w","w",".","s","h","o","p",".","e","s","/","p","1">>

\* "HTTPS://WWW.SHOP.ES/P1"
UrlP1Caps ==
    <<"H","T","T","P","S",":","/","/","W","W","W",".","S","H","O","P",".","E","S","/","P","1">>

\* "https://www.shop.es/p1?ref=x"
UrlP1Ref ==
    <<"h","t","t","p","s",":","/","/","w","w","w",".","s","h","o","p",".","e","s","/","p","1",
      "?","r","e","f","=","x">>

\* "https://www.shop.es/p2"
UrlP2 ==
    <<"h","t","t","p","s",":","/","/","w","w","w",".","s","h","o","p",".","e","s","/","p","2">>

\* "https://amazon.es/p9"
UrlAmazon ==
    <<"h","t","t","p","s",":","/","/","a","m","a","z","o","n",".","e","s","/","p","9">>

\* " https://www.shop.es/P1 "
UrlP1Padded ==
    <<" ","h","t","t","p","s",":","/","/","w","w","w",".","s","h","o","p",".","e","s","/","P",
      "1"," ">>

\* "shop.es"
DomainShop ==
    <<"s","h","o","p",".","e","s">>

\* "www.Shop.es"
DomainWww ==
    <<"w","w","w",".","S","h","o","p",".","e","s">>

\* "https://www.shop.es"
DomainHttps ==
    <<"h","t","t","p","s",":","/","/","w","w","w",".","s","h","o","p",".","e","s">>

\* " shop.es"
DomainPadded ==
    <<" ","s","h","o","p",".","e","s">>

\* "MSI", "Cyborg", "RTX 40xx", "RTX 30xx", "13th Gen", "RTX 4060", "RTX 3050",
\* "RX 7600"
BrandMsi == <<"M", "S", "I">>
SeriesCyborg == <<"C", "y", "b", "o", "r", "g">>
TierRtx40 == <<"R", "T", "X", " ", "4", "0", "x", "x">>
TierRtx30 == <<"R", "T", "X", " ", "3", "0", "x", "x">>
Gen13 == <<"1", "3", "t", "h", " ", "G", "e", "n">>
GpuRtx4060 == <<"R", "T", "X", " ", "4", "0", "6", "0">>
GpuRtx3050 == <<"R", "T", "X", " ", "3", "0", "5", "0">>
GpuRx7600 == <<"R", "X", " ", "7", "6", "0", "0">>

NoSpecs == ProductSpecs(<<>>, <<>>, <<>>, <<>>, <<>>)
SpecsMsi40 == ProductSpecs(BrandMsi, SeriesCyborg, TierRtx40, Gen13, GpuRtx4060)
SpecsMsi30 == ProductSpecs(BrandMsi, SeriesCyborg, TierRtx30, Gen13, GpuRtx3050)
SpecsGpuOnly == ProductSpecs(<<>>, <<>>, <<>>, <<>>, GpuRx7600)
SpecsBrandOnly == ProductSpecs(BrandMsi, <<>>, <<>>, <<>>, <<>>)

\* every field the matcher reads: model code "B13VFK", processor "i7-13620H",
\* 16 GB, 512 GB, 15.6"
SpecsCyborgFull ==
    [SpecsMsi40 EXCEPT !.model_code = <<"B", "1", "3", "V", "F", "K">>, !.processor = <<"i", "7", "-", "1", "3", "6", "2", "0", "H">>,
                       !.ram_gb = 16, !.storage_gb = 512, !.screen_size = 156]
\* the same fields under another model code, "B13VGK"
SpecsCyborgOtherCode == [SpecsCyborgFull EXCEPT !.model_code = <<"B", "1", "3", "V", "G", "K">>]
\* the model code in lower case, "b13vfk", on a product that differs in every
\* other field: "ASUS", "TUF", "RTX 30xx", "12th Gen", "RTX 3050", "R7-6800H",
\* 64 GB, 2048 GB, 17.3"
SpecsSameCodeOnly ==
    [ProductSpecs(<<"A", "S", "U", "S">>, <<"T", "U", "F">>, TierRtx30, <<"1", "2", "t", "h", " ", "G", "e", "n">>, GpuRtx3050)
        EXCEPT !.model_code = <<"b", "1", "3", "v", "f", "k">>, !.processor = <<"R", "7", "-", "6", "8", "0", "0", "H">>,
               !.ram_gb = 64, !.storage_gb = 2048, !.screen_size = 173]
\* the brand and series of SpecsCyborgFull with an older GPU and processor,
\* 8 GB, 512 GB, 15.6", model code "A12UC"
SpecsCyborg30 ==
    [ProductSpecs(BrandMsi, SeriesCyborg, TierRtx30, <<"1", "2", "t", "h", " ", "G", "e", "n">>, GpuRtx3050)
        EXCEPT !.model_code = <<"A", "1", "2", "U", "C">>, !.ram_gb = 8, !.storage_gb = 512,
               !.screen_size = 156]

\* a listing as the ingestion creates it
Listing(title, store, url, price) == Product(title, store, url, price, 0, FALSE, FALSE, NoSpecs)

(***************************************************************************)
(* The two front ends outside the core: src/analyzer.py with app.py, and   *)
(* serp-price-checker/src/analyzer.py with serp-price-checker/app.py.      *)
(* A ShoppingResult is read through its store, url and price; its position *)
(* is its 1-based index in the list.                                       *)
(***************************************************************************)
\* a walk over the products in list order
legacy_build_analysis_in_list_order(your_domain, your_price, shopping_results) ==
    LET products_with_price == priced_indices(shopping_results)
        not_cheaper == [k \in DOMAIN products_with_price |->
                          ~(shopping_results[products_with_price[k]].price < your_price)]
    IN  [your_serp_position |-> 0,
         your_price_position |-> IF FirstIndex(not_cheaper) = 0
                                 THEN Len(products_with_price) + 1
                                 ELSE FirstIndex(not_cheaper),
         total_competitors |-> Len(products_with_price)]

\* src/analyzer.py build_analysis: the fields the ranking reads
legacy_build_analysis(your_domain, your_price, shopping_results) ==
    LET your_domain_clean == str_replace(str_lower(your_domain), WWW, <<>>)
        products_with_price == priced_indices(shopping_results)
        yours == [i \in DOMAIN shopping_results |->
                    \/ str_contains(your_domain_clean, str_lower(shopping_results[i].store))
                    \/ str_contains(your_domain_clean, str_lower(shopping_results[i].url))]
        sorted_by_price == sort_by_price(shopping_results, products_with_price)
        \* the walk stops at the first product that is not cheaper
        not_cheaper == [k \in DOMAIN sorted_by_price |->
                          ~(shopping_results[sorted_by_price[k]].price < your_price)]
    IN  [your_serp_position |-> FirstIndex(yours),
         your_price_position |-> IF FirstIndex(not_cheaper) = 0
                                 THEN Len(sorted_by_price) + 1
                                 ELSE FirstIndex(not_cheaper),
         total_competitors |-> Len(sorted_by_price)]

\* app.py: the N of "#X de N" in the price ranking metric
legacy_ranking_total(all_products) == Len(all_products) + 1

\* serp-price-checker/src/analyzer.py build_analysis
checker_build_analysis(your_domain, your_price, shopping_results) ==
    LET valid_products == sort_by_price(shopping_results, priced_indices(shopping_results))
        your_domain_clean == str_lower(str_replace(your_domain, WWW, <<>>))
        yours == [k \in DOMAIN valid_products |->
                    LET store_clean == str_lower(shopping_results[valid_products[k]].store)
                    IN  \/ str_contains(your_domain_clean, store_clean)
                        \/ str_contains(store_clean, your_domain_clean)]
    IN  [your_serp_position |-> IF FirstIndex(yours) = 0 THEN 0
                                ELSE valid_products[FirstIndex(yours)],
         your_price_position |->
             1 + Len(SelectSeq(valid_products,
                               LAMBDA i : shopping_results[i].price < your_price)),
         total_competitors |-> Len(valid_products)]

\* serp-price-checker/app.py: the N of "#X de N" in the price ranking metric
checker_ranking_total(competitors) == competitors + 1

(***************************************************************************)
(* The state: one input (product list, configuration), the set order of    *)
(* the running process, and the results of the calls made on the input.    *)
(***************************************************************************)
VARIABLES
    serp,         \* the product list handed to the core, as ingested
    settings,     \* the AnalysisConfig
    hash_seed,    \* the set order of the process (see SetOrder)
    phase,        \* which call has been made
    result,       \* the PriceAnalysis of the last analyze_prices call
    before,       \* the PriceAnalysis of the call before it
    grouped,      \* the result of a direct clustering call
    identified,   \* the result of a direct identify_your_product call
    change,       \* the price change between the two analyses
    comparison,   \* the titles and results of direct calculate_token_match calls
    built         \* what the two front ends outside the core computed and showed

vars ==
    <<serp, settings, hash_seed, phase, result, before, grouped, identified, change,
      comparison, built>>

MaxProducts == 3

\* prices a product can be changed to by Reprice
RepriceTo == {0, 48000, 52000}

NoAnalysis == PriceAnalysis(NoText, NoText, 0)
NoChange == [index |-> 0, old |-> 0, new |-> 0]

NoMatch ==
    [score |-> <<0, 1>>, level |-> DIFFERENT, matched_tokens |-> {}, unmatched_tokens |-> {},
     brand_match |-> FALSE, model_match |-> FALSE]

NoComparison ==
    [product_title |-> NoText, reference_title |-> NoText, match |-> NoMatch,
     swapped |-> NoMatch, product_specs |-> NoSpecs, reference_specs |-> NoSpecs,
     structured |-> Returned(<<0, 1>>, DIFFERENT)]

NoneBuilt == [your_serp_position |-> 0, your_price_position |-> 0, total_competitors |-> 0]
NotBuilt == [legacy |-> NoneBuilt, legacy_total |-> 0, checker |-> NoneBuilt, checker_total |-> 0]

InitWith(Catalog, Configs) ==
    /\ serp \in SeqsUpTo(Catalog, MaxProducts)
    /\ settings \in Configs
    /\ hash_seed \in Seeds
    /\ phase = "input"
    /\ result = NoAnalysis
    /\ before = NoAnalysis
    /\ grouped = <<>>
    /\ identified = 0
    /\ change = NoChange
    /\ comparison = NoComparison
    /\ built = NotBuilt

\* analyze_prices(products, config)
Analyze ==
    /\ phase = "input"
    /\ result' = analyze_prices(serp, settings, hash_seed)
    /\ phase' = "analyzed"
    /\ UNCHANGED <<built, comparison, serp, settings, hash_seed, before, grouped, identified, change>>

\* cluster_products(products)
ClusterTier ==
    /\ phase = "input"
    /\ grouped' = cluster_products(serp)
    /\ phase' = "tier"
    /\ UNCHANGED <<built, comparison, serp, settings, hash_seed, result, before, identified, change>>

\* cluster_products_by_brand(products)
ClusterBrand ==
    /\ phase = "input"
    /\ grouped' = cluster_products_by_brand(serp, hash_seed)
    /\ phase' = "brand"
    /\ UNCHANGED <<built, comparison, serp, settings, hash_seed, result, before, identified, change>>

\* identify_your_product(products, your_domain, your_price, your_url)
Identify ==
    /\ phase = "input"
    /\ identified' = identify_your_product(serp, settings.your_domain,
                         settings.your_price, settings.your_product_url)
    /\ phase' = "identified"
    /\ UNCHANGED <<built, comparison, serp, settings, hash_seed, result, before, grouped, change>>

\* a second analysis, of the same list with the price of one product changed
Reprice ==
    /\ phase = "analyzed"
    /\ \E i \in DOMAIN serp, price \in RepriceTo :
          /\ price # serp[i].price
          /\ serp' = [serp EXCEPT ![i].price = price]
          /\ change' = [index |-> i, old |-> serp[i].price, new |-> price]
    /\ before' = result
    /\ result' = analyze_prices(serp', settings, hash_seed)
    /\ phase' = "repriced"
    /\ UNCHANGED <<built, comparison, settings, hash_seed, grouped, identified>>

\* a second analysis of the same list and configuration, in a new process
Rerun ==
    /\ phase = "analyzed"
    /\ hash_seed' \in Seeds
    /\ before' = result
    /\ result' = analyze_prices(serp, settings, hash_seed')
    /\ phase' = "rerun"
    /\ UNCHANGED <<built, comparison, serp, settings, grouped, identified, change>>

\* calculate_token_match(product_title, reference_title): the title of a
\* product against the query or against the title of a product
Match ==
    /\ phase = "input"
    /\ \E i \in DOMAIN serp,
          r \in {settings.product_query} \cup {serp[j].title : j \in DOMAIN serp} :
          comparison' = [NoComparison EXCEPT
                            !.product_title = serp[i].title,
                            !.reference_title = r,
                            !.match = token_match_of(serp[i].title, r, hash_seed)]
    /\ phase' = "matched"
    /\ UNCHANGED <<built, serp, settings, hash_seed, result, before, grouped, identified, change>>

\* the same call in the same process with the two titles swapped
MatchSwapped ==
    /\ phase = "matched"
    /\ comparison' = [comparison EXCEPT !.swapped =
                         token_match_of(comparison.reference_title,
                                        comparison.product_title, hash_seed)]
    /\ phase' = "swapped"
    /\ UNCHANGED <<built, serp, settings, hash_seed, result, before, grouped, identified, change>>

\* calculate_match_score(product, reference) on two products of the list,
\* before or after a call of calculate_token_match
Score ==
    /\ phase \in {"input", "matched"}
    /\ \E i \in DOMAIN serp, j \in DOMAIN serp :
          comparison' = [comparison EXCEPT
                            !.product_specs = serp[i].specs,
                            !.reference_specs = serp[j].specs,
                            !.structured = calculate_match_score(serp[i].specs,
                                                                 serp[j].specs)]
    /\ phase' = "scored"
    /\ UNCHANGED <<built, serp, settings, hash_seed, result, before, grouped, identified, change>>

\* app.py: build_analysis on the list and the ranking metric shown for it,
\* on a fresh list or on one the core has analysed
BuildLegacy ==
    /\ phase \in {"input", "analyzed"}
    /\ serp # <<>>
    /\ built' = [built EXCEPT
                    !.legacy = legacy_build_analysis(settings.your_domain,
                                                     settings.your_price, serp),
                    !.legacy_total = legacy_ranking_total(serp)]
    /\ phase' = "legacy"
    /\ UNCHANGED <<comparison, serp, settings, hash_seed, result, before, grouped,
                   identified, change>>

\* serp-price-checker/app.py: build_analysis on the list and the ranking
\* metric shown for it
BuildChecker ==
    /\ phase \in {"input", "legacy"}
    /\ serp # <<>>
    /\ LET analysis == checker_build_analysis(settings.your_domain,
                                              settings.your_price, serp)
       IN  built' = [built EXCEPT
                       !.checker = analysis,
                       !.checker_total = checker_ranking_total(analysis.total_competitors)]
    /\ phase' = "checker"
    /\ UNCHANGED <<comparison, serp, settings, hash_seed, result, before, grouped,
                   identified, change>>

Next ==
    \/ Analyze \/ ClusterTier \/ ClusterBrand \/ Identify \/ Reprice \/ Rerun
    \/ Match \/ MatchSwapped \/ Score \/ BuildLegacy \/ BuildChecker

(***************************************************************************)
(* Specifications.  Each draws the product list from a catalogue that      *)
(* varies the fields one group of operations reads.                        *)
(***************************************************************************)
\* URL matching: the listings differ in URL and store
CatalogUrl ==
    {Listing(TitleS24Negro, l[1], l[2], 50000) :
        l \in {<<StoreShop, UrlP1>>, <<StoreShopCaps, UrlP1Caps>>, <<StoreShop, UrlP1Ref>>,
               <<StoreShop, UrlP2>>, <<StoreShop, NoText>>, <<StoreAmazon, UrlAmazon>>}}

ConfigsUrl ==
    {AnalysisConfig(DomainShop, 50000, u, QueryS24) : u \in {NoText, UrlP1, UrlP1Padded}}

InitUrl == InitWith(CatalogUrl, ConfigsUrl)

SpecUrl == InitUrl /\ [][Next]_vars

\* domain matching: the listings differ in store, URL and price
CatalogDomain ==
    {Listing(TitleS24Negro, StoreShop, NoText, price) : price \in {0, 48000, 51000, 52000}}
    \cup {Listing(TitleS24Negro, StoreShopCaps, UrlP2, 51000),
          Listing(TitleS24Negro, StoreAmazon, UrlAmazon, 50000)}

ConfigsDomain ==
    {AnalysisConfig(d, 50000, NoText, QueryS24) :
        d \in {DomainShop, DomainWww, DomainHttps, DomainPadded}}
    \cup {AnalysisConfig(DomainShop, 0, NoText, QueryS24)}

InitDomain == InitWith(CatalogDomain, ConfigsDomain)

SpecDomain == InitDomain /\ [][Next]_vars

\* prices and recommendations: competitors around the seller price, a
\* product at 12.95, discounted from 19.99, with and without the offer flag, a
\* listing of the seller and an unpriced listing flagged as the seller's
CatalogPrice ==
    {Listing(TitleS24Negro, StoreAmazon, UrlAmazon, price) : price \in {48000, 50000, 52000}}
    \cup {Product(TitleFunda, StoreAmazon, UrlAmazon, 1295, 1999, is_offer, FALSE, NoSpecs) :
            is_offer \in BOOLEAN}
    \cup {Listing(TitleS24Negro, StoreShop, UrlP1, 50000),
          Product(TitleS24Negro, StoreShop, UrlP2, 0, 0, FALSE, TRUE, NoSpecs)}

ConfigsPrice ==
    {AnalysisConfig(DomainShop, price, NoText, QueryS24) : price \in {45000, 50000, 53000}}

InitPrice == InitWith(CatalogPrice, ConfigsPrice)

SpecPrice == InitPrice /\ [][Next]_vars

\* clustering: the listings differ in title, specs and price
CatalogCluster ==
    {Listing(TitleS24Negro, StoreAmazon, UrlAmazon, 50000),
     Listing(TitleFunda, StoreAmazon, UrlAmazon, 0),
     Product(TitleMsiGaming, StoreAmazon, UrlAmazon, 90000, 0, FALSE, FALSE, SpecsMsi40),
     Product(TitleMsiGaming, StoreShop, UrlP1, 95000, 0, FALSE, FALSE, SpecsMsi40),
     Product(TitleMsiGaming, StoreAmazon, UrlAmazon, 0, 0, FALSE, FALSE, SpecsMsi30),
     Product(TitleMsiGaming, StoreAmazon, UrlAmazon, 70000, 0, FALSE, FALSE, SpecsGpuOnly)}

ConfigsCluster == {AnalysisConfig(DomainShop, 50000, NoText, QueryS24)}

InitCluster == InitWith(CatalogCluster, ConfigsCluster)

SpecCluster == InitCluster /\ [][Next]_vars

\* structured matching: the listings differ in specs, one is in the seller's
\* store, and one has a model code in its title, as the query has
CatalogScore ==
    {Product(TitleMsiGaming, StoreAmazon, UrlAmazon, 90000, 0, FALSE, FALSE, specs) :
        specs \in {SpecsCyborgFull, SpecsCyborgOtherCode, SpecsSameCodeOnly, SpecsCyborg30,
                   SpecsMsi40, SpecsBrandOnly}}
    \cup {Product(TitleMsiGaming, StoreShop, UrlP1, 95000, 0, FALSE, FALSE, SpecsCyborgFull),
          Listing(TitleCable1121A, StoreAmazon, UrlAmazon, 90000)}

ConfigsScore ==
    {[AnalysisConfig(DomainShop, 95000, NoText, TitleFunda1121a)
         EXCEPT !.match_by_specs = flag] : flag \in BOOLEAN}

InitScore == InitWith(CatalogScore, ConfigsScore)

SpecScore == InitScore /\ [][Next]_vars

\* configurations: a valid one, one with a seller price of 0 and one with an
\* empty seller domain, over a competitor, a listing of the seller and an
\* unpriced listing
CatalogConfig ==
    {Listing(TitleS24Negro, StoreAmazon, UrlAmazon, 48000),
     Listing(TitleS24Negro, StoreShop, UrlP1, 50000),
     Listing(TitleFunda, StoreAmazon, UrlAmazon, 0)}

ConfigsConfig ==
    {AnalysisConfig(DomainShop, 50000, NoText, QueryS24),
     AnalysisConfig(DomainShop, 0, NoText, QueryS24),
     AnalysisConfig(NoText, 50000, NoText, QueryS24)}

InitConfig == InitWith(CatalogConfig, ConfigsConfig)

SpecConfig == InitConfig /\ [][Next]_vars

\* matching: the listings differ in title
CatalogMatch ==
    {Listing(title, StoreAmazon, UrlAmazon, 50000) :
        title \in {TitleS24Negro, TitleMsiGaming, TitleFunda, TitleCable1121A,
                   TitleCable2111A, TitleFunda1121a, TitleS24With512}}

\* the query is the default, the empty string, or a search
ConfigsMatch ==
    {AnalysisConfig(DomainShop, 50000, NoText, query) : query \in {NoText, QueryS24}}

InitMatch == InitWith(CatalogMatch, ConfigsMatch)

SpecMatch == InitMatch /\ [][Next]_vars

(***************************************************************************)
(* Properties                                                              *)
(***************************************************************************)
\* an analysis has been returned for the list in serp
Analyzed == phase \in {"analyzed", "repriced", "rerun"}

\* the priced products of the list
Priced == {i \in DOMAIN serp : serp[i].price > 0}

Least(S) == CHOOSE x \in S : \A y \in S : x <= y

PricesOf(list) == [i \in DOMAIN list |-> list[i].price]

\* C1: after either clustering call (tier or brand) every priced product is
\* in exactly one cluster, no unpriced product is in any cluster, and the
\* member counts of the clusters sum to the number of priced products
C1_ClustersPartitionPriced ==
    phase \in {"tier", "brand"} =>
        /\ \A i \in Priced :
              Cardinality({c \in DOMAIN grouped : i \in Range(grouped[c].products)}) = 1
        /\ \A i \in (DOMAIN serp) \ Priced :
              \A c \in DOMAIN grouped : i \notin Range(grouped[c].products)
        /\ SumSeq([c \in DOMAIN grouped |-> Len(grouped[c].products)]) = Cardinality(Priced)

\* C2: with at least one priced product, your_price_rank is one more than
\* the number of priced products strictly below the seller price; the
\* products at exactly the seller price are counted in products_same and
\* those above it in products_expensive
C2_RankCountsStrictlyCheaper ==
    (Analyzed /\ Priced # {}) =>
        /\ result.your_price_rank
               = 1 + Cardinality({i \in Priced : serp[i].price < settings.your_price})
        /\ result.products_cheaper
               = Cardinality({i \in Priced : serp[i].price < settings.your_price})
        /\ result.products_same
               = Cardinality({i \in Priced : serp[i].price = settings.your_price})
        /\ result.products_expensive
               = Cardinality({i \in Priced : serp[i].price > settings.your_price})

\* seller 500.00 against [480.00, 500.00, 520.00]: cheaper 1, same 1, expensive 1, rank 2
C2_Witness ==
    /\ phase = "analyzed"
    /\ settings.your_price = 50000
    /\ PricesOf(serp) = <<48000, 50000, 52000>>
    /\ result.products_cheaper = 1
    /\ result.products_same = 1
    /\ result.products_expensive = 1
    /\ result.your_price_rank = 2

\* the product whose price was changed is neither your product nor of your store
CompetitorChanged ==
    /\ change.index # before.your_product
    /\ change.index \notin Range(before.your_store_products)

\* C3 (as amended): between two analyses that differ only in the price of
\* one product, priced before and after, a higher price never makes the
\* number your_price_rank larger and a lower price never makes it smaller
C3_RankMovesAgainstPrice ==
    (phase = "repriced" /\ change.old > 0 /\ change.new > 0) =>
        /\ change.new > change.old => result.your_price_rank <= before.your_price_rank
        /\ change.new < change.old => result.your_price_rank >= before.your_price_rank

\* a competitor goes from 480.00 to 520.00 past the seller price 500.00: the rank
\* falls by one
C3_Witness ==
    /\ phase = "repriced"
    /\ CompetitorChanged
    /\ change.old = 48000
    /\ change.new = 52000
    /\ settings.your_price = 50000
    /\ result.your_price_rank = before.your_price_rank - 1

\* C3 (as stated): a higher price of a competitor never makes your_price_rank
\* smaller and a lower price never makes it larger
C3_RankFollowsPrice ==
    (phase = "repriced" /\ CompetitorChanged /\ change.old > 0 /\ change.new > 0) =>
        /\ change.new > change.old => result.your_price_rank >= before.your_price_rank
        /\ change.new < change.old => result.your_price_rank <= before.your_price_rank

ClusterKeys(analysis) == [c \in DOMAIN analysis.clusters |-> analysis.clusters[c].key]

RecommendationTitles(analysis) ==
    [k \in DOMAIN analysis.recommendations |-> analysis.recommendations[k].title]

RecommendationArgs(analysis) ==
    [k \in DOMAIN analysis.recommendations |-> analysis.recommendations[k].args]

\* C4: a second run of analyze_prices on the same list and configuration
\* gives the same cluster keys in the same order and the same recommendation
\* texts in the same order, whatever the iteration order of the sets
C4_RerunGivesSameOutput ==
    phase = "rerun" =>
        /\ ClusterKeys(result) = ClusterKeys(before)
        /\ RecommendationTitles(result) = RecommendationTitles(before)
        /\ RecommendationArgs(result) = RecommendationArgs(before)

\* the rank of a priority in the returned order
PriorityTier(r) ==
    IF r.priority = "high" THEN 1 ELSE IF r.priority = "medium" THEN 2 ELSE 3

\* the position of the rule of a recommendation in the order the rules run
RuleOf(r) ==
    IF r.type = "price_reduction" THEN 1
    ELSE IF r.type = "price_increase" THEN 2
    ELSE IF r.type = "similar_product_alert" THEN 3
    ELSE IF r.title = "competidores con ofertas agresivas" THEN 4
    ELSE IF r.type = "opportunity" THEN 5
    ELSE 6

\* C5: the returned recommendations are ordered by priority (high, medium,
\* low) and those of equal priority are in the order their rules appended them
C5_RecommendationsByPriorityStable ==
    Analyzed =>
        \A k \in 1..(Len(result.recommendations) - 1) :
            LET this == result.recommendations[k]
                next == result.recommendations[k + 1]
            IN  /\ PriorityTier(this) <= PriorityTier(next)
                /\ PriorityTier(this) = PriorityTier(next) => RuleOf(this) < RuleOf(next)

\* a medium price reduction, appended first, comes after two high alerts
\* that keep their order
C5_Witness ==
    /\ phase = "analyzed"
    /\ Len(result.recommendations) >= 3
    /\ result.recommendations[1].type = "similar_product_alert"
    /\ result.recommendations[2].type = "alert"
    /\ result.recommendations[3].type = "price_reduction"
    /\ result.recommendations[3].priority = "medium"

\* C6: with no priced product in the list (the empty list included)
\* analyze_prices returns an analysis with total_products the length of the
\* list, your_price_rank 0, every price statistic at its default, and no
\* clusters, exact matches or recommendations
C6_NoPricedProductGivesDefaults ==
    (Analyzed /\ Priced = {}) =>
        /\ result.total_products = Len(serp)
        /\ result.total_with_price = 0
        /\ result.your_price_rank = 0
        /\ result.your_price_rank_in_cluster = 0
        /\ result.min_price = 0
        /\ result.max_price = 0
        /\ result.avg_price = <<0, 1>>
        /\ result.median_price = <<0, 1>>
        /\ result.cheapest = 0
        /\ result.products_cheaper = 0
        /\ result.products_same = 0
        /\ result.products_expensive = 0
        /\ result.clusters = <<>>
        /\ result.exact_matches = <<>>
        /\ result.recommendations = <<>>

\* a list of two unpriced products has been analysed
C6_Witness ==
    /\ phase = "analyzed"
    /\ Len(serp) = 2
    /\ Priced = {}
    /\ result.total_products = 2
    /\ result.your_price_rank = 0

\* the seller URL as the code compares it
SellerUrl == str_strip(str_lower(settings.your_product_url))

\* the products whose URL is the seller URL up to case and outer whitespace
UrlEqual ==
    {i \in DOMAIN serp :
        serp[i].url # <<>> /\ str_strip(str_lower(serp[i].url)) = SellerUrl}

\* the products whose lower-cased URL contains the seller URL or is contained in it
UrlPartial ==
    {i \in DOMAIN serp :
        /\ serp[i].url # <<>>
        /\ \/ str_contains(SellerUrl, str_lower(serp[i].url))
           \/ str_contains(str_lower(serp[i].url), SellerUrl)}

\* C7 (as amended): with a seller URL, the first product whose URL equals
\* it after lower-casing and stripping both is returned, whatever matches
\* before it; if there is none, the first product whose lower-cased URL
\* contains the cleaned seller URL or is contained in it; a product without
\* URL matches neither way; with neither match the result is that of the
\* domain matching
C7_UrlEqualThenPartialThenDomain ==
    (phase = "identified" /\ settings.your_product_url # <<>>) =>
        IF UrlEqual # {} THEN identified = Least(UrlEqual)
        ELSE IF UrlPartial # {} THEN identified = Least(UrlPartial)
        ELSE identified = identify_your_product(serp, settings.your_domain,
                              settings.your_price, <<>>)

\* the second product has the seller URL, the first only contains it
C7_Witness ==
    /\ phase = "identified"
    /\ settings.your_product_url = UrlP1
    /\ Len(serp) >= 2
    /\ serp[1].url = UrlP1Ref
    /\ serp[2].url = UrlP1
    /\ identified = 2

\* the products whose URL is the seller URL, character for character
UrlIdentical == {i \in DOMAIN serp : serp[i].url = settings.your_product_url}

\* C7 (as stated): if the URL of some product equals the seller URL exactly,
\* the first such product is returned; if none does, the first product that
\* matches by URL substring
C7_UrlIdenticalFirst ==
    (phase = "identified" /\ settings.your_product_url # <<>>) =>
        IF UrlIdentical # {} THEN identified = Least(UrlIdentical)
        ELSE UrlPartial # {} => identified = Least(UrlPartial)

HTTPS == <<"h", "t", "t", "p", "s", ":", "/", "/">>
HTTP == <<"h", "t", "t", "p", ":", "/", "/">>

\* the seller domain without protocol scheme and without 'www.'
DomainWithoutScheme ==
    str_strip(str_replace(str_replace(str_replace(
        str_lower(settings.your_domain), HTTPS, <<>>), HTTP, <<>>), WWW, <<>>))

\* the products whose store or URL contains that domain
OfSeller ==
    {i \in DOMAIN serp :
        \/ str_contains(DomainWithoutScheme, str_lower(serp[i].store))
        \/ str_contains(DomainWithoutScheme, str_lower(serp[i].url))}

\* C8: a product is the seller's, for identify_your_product and for
\* your_store_products, whenever its store or URL contains the seller domain
\* cleaned of its protocol scheme and of 'www.'
C8_DomainCleanedOfSchemeAndWww ==
    /\ (phase = "identified" /\ settings.your_product_url = <<>>) =>
            IF OfSeller = {} THEN identified = 0 ELSE identified \in OfSeller
    /\ (phase = "analyzed" /\ Priced # {}) =>
            Range(result.your_store_products) = OfSeller

\* the seller domain as identify_your_product cleans it
DomainAsCleaned ==
    str_strip(str_replace(str_lower(settings.your_domain), WWW, <<>>))

\* the products that match it by store or URL
Candidates ==
    {i \in DOMAIN serp :
        \/ str_contains(DomainAsCleaned, str_lower(serp[i].store))
        \/ str_contains(DomainAsCleaned, str_lower(serp[i].url))}

Distance(i) == Abs(serp[i].price - settings.your_price)

\* what identify_your_product returns when it gets to the domain matching
ClosestCandidate ==
    (phase = "identified" /\ settings.your_product_url = <<>>) =>
        /\ (Cardinality(Candidates) >= 2 /\ settings.your_price > 0) =>
              /\ identified \in Candidates
              /\ \A j \in Candidates :
                    /\ serp[j].price # 0 =>
                          /\ serp[identified].price # 0
                          /\ Distance(identified) <= Distance(j)
                          /\ Distance(identified) = Distance(j) => identified <= j
                    /\ serp[identified].price = 0 => identified <= j
        /\ (Candidates # {} /\ settings.your_price = 0) =>
              identified = Least(Candidates)

\* C9: among several products that match the seller domain, with a positive
\* seller price, identify_your_product returns the one whose price is
\* closest to it, never an unpriced one if a priced one matches, the earlier
\* one at equal distance; without seller price it returns the first that
\* matches; the call leaves the product list in its order
C9_ClosestCandidateListKept ==
    /\ []ClosestCandidate
    /\ [][phase' = "identified" => serp' = serp]_vars

\* an unpriced product and two at distance 20.00 match: the first of the two is returned
C9_Witness ==
    /\ phase = "identified"
    /\ settings.your_product_url = <<>>
    /\ settings.your_domain = DomainShop
    /\ settings.your_price = 50000
    /\ PricesOf(serp) = <<0, 52000, 48000>>
    /\ Candidates = {1, 2, 3}
    /\ identified = 2

\* the products that are flagged or have the URL of the identified product
Hits ==
    {i \in DOMAIN serp :
        \/ serp[i].is_your_product
        \/ /\ result.your_product # 0
           /\ serp[i].url = serp[result.your_product].url}

\* C10: with at least one priced product, your_serp_position is the
\* smallest 1-based index, over the whole list with its unpriced products,
\* of a product that is flagged is_your_product or has the URL of the
\* identified product, and None (0) when there is no such product
C10_SerpPositionOverWholeList ==
    (Analyzed /\ Priced # {}) =>
        result.your_serp_position = IF Hits = {} THEN 0 ELSE Least(Hits)

\* the flagged product is unpriced and comes second, after a priced competitor
C10_Witness ==
    /\ phase = "analyzed"
    /\ Len(serp) = 3
    /\ serp[1].price > 0 /\ ~serp[1].is_your_product
    /\ serp[2].price = 0 /\ serp[2].is_your_product
    /\ serp[3].price > 0
    /\ result.your_serp_position = 2

\* the priced products at or above the VERY_SIMILAR tier
AtOrAboveVerySimilar ==
    {i \in Priced : result.all_products[i].match_level \in {EXACT, VERY_SIMILAR}}

\* the products that have the URL of the identified product, itself included
WithYourUrl ==
    {i \in DOMAIN serp :
        result.your_product # 0 /\ serp[i].url = serp[result.your_product].url}

\* C11 (as amended): exact_matches holds, in list order and once each, the
\* priced products whose match_level is EXACT or VERY_SIMILAR and whose URL
\* is not the URL of the identified product; the product identified as
\* yours, and every product with its URL, is given EXACT and left out
C11_ExactMatchesWithoutYourUrl ==
    (Analyzed /\ Priced # {}) =>
        /\ Range(result.exact_matches) = AtOrAboveVerySimilar \ WithYourUrl
        /\ \A j, k \in DOMAIN result.exact_matches :
              j < k => result.exact_matches[j] < result.exact_matches[k]
        /\ \A i \in Priced \cap WithYourUrl : result.all_products[i].match_level = EXACT

\* your product is priced and EXACT, a competitor is in exact_matches, a
\* third product is below the tier
C11_Witness ==
    /\ phase = "analyzed"
    /\ Len(serp) = 3
    /\ result.your_product = 2
    /\ serp[2].price > 0
    /\ result.all_products[2].match_level = EXACT
    /\ result.exact_matches = <<1>>
    /\ result.all_products[3].match_level \notin {EXACT, VERY_SIMILAR}
    /\ serp[3].price > 0

\* C11 (as stated): exact_matches holds exactly the priced products whose
\* match_level is EXACT or VERY_SIMILAR
C11_ExactMatchesAllAtTier ==
    (Analyzed /\ Priced # {}) => Range(result.exact_matches) = AtOrAboveVerySimilar

\* a direct calculate_token_match call has returned
Matched == phase \in {"matched", "swapped"}

\* the model codes of the two titles of the call
ProductModel == tokens_of(comparison.product_title, hash_seed).model
ReferenceModel == tokens_of(comparison.reference_title, hash_seed).model

\* C12: calculate_token_match gives EXACT if the detected model codes match
\* or the score is at least 0.90, else VERY_SIMILAR from 0.75, else SIMILAR
\* from 0.50, else RELATED from 0.30, else DIFFERENT, and the score it
\* returns is in [0, 1]
C12_LevelByModelThenThresholds ==
    Matched =>
        LET score == comparison.match.score
            codes_match == /\ ProductModel # <<>>
                           /\ ReferenceModel # <<>>
                           /\ str_upper(ProductModel) = str_upper(ReferenceModel)
        IN  /\ comparison.match.model_match = codes_match
            /\ score[2] > 0
            /\ 0 <= score[1]
            /\ score[1] <= score[2]
            /\ comparison.match.level =
                   IF codes_match \/ 100 * score[1] >= 90 * score[2] THEN EXACT
                   ELSE IF 100 * score[1] >= 75 * score[2] THEN VERY_SIMILAR
                   ELSE IF 100 * score[1] >= 50 * score[2] THEN SIMILAR
                   ELSE IF 100 * score[1] >= 30 * score[2] THEN RELATED
                   ELSE DIFFERENT

\* "Cable 1121A" against "Funda 1121a": the same model code, a score of
\* 0.65, EXACT
C12_Witness ==
    /\ phase = "matched"
    /\ comparison.product_title = TitleCable1121A
    /\ comparison.reference_title = TitleFunda1121a
    /\ comparison.match.model_match
    /\ comparison.match.score = <<13, 20>>
    /\ comparison.match.level = EXACT

\* C13: calculate_token_match(a, b) and calculate_token_match(b, a) return
\* the same score, the same level and the same brand_match and model_match
C13_SwappedTitlesSameResult ==
    phase = "swapped" =>
        /\ comparison.swapped.score = comparison.match.score
        /\ comparison.swapped.level = comparison.match.level
        /\ comparison.swapped.brand_match = comparison.match.brand_match
        /\ comparison.swapped.model_match = comparison.match.model_match

\* the model codes of the two specs of the call of calculate_match_score
SameModelCode(p1, p2) ==
    /\ p1.model_code # <<>>
    /\ p2.model_code # <<>>
    /\ str_upper(p1.model_code) = str_upper(p2.model_code)

\* C14: when both sides have a non-empty model code and the two codes are
\* equal ignoring case, calculate_match_score returns (1.0, EXACT) and
\* calculate_token_match gives the level EXACT, whatever the other fields or
\* tokens are
C14_SameModelCodeIsExact ==
    /\ SameModelCode(comparison.product_specs, comparison.reference_specs)
           => comparison.structured = Returned(<<1, 1>>, EXACT)
    /\ SameModelCode([model_code |-> ProductModel], [model_code |-> ReferenceModel])
           => comparison.match.level = EXACT

\* "Cable 1121A" against "Funda 1121a" scores 0.65 on tokens, and two specs
\* that share only the model code, in different case, earn 0.15 on fields:
\* both calls answer EXACT
C14_Witness ==
    /\ phase = "scored"
    /\ comparison.product_title = TitleCable1121A
    /\ comparison.reference_title = TitleFunda1121a
    /\ comparison.match.score = <<13, 20>>
    /\ comparison.match.level = EXACT
    /\ comparison.product_specs = SpecsSameCodeOnly
    /\ comparison.reference_specs = SpecsCyborgFull
    /\ SumSeq(earned_weights(SpecsSameCodeOnly, SpecsCyborgFull)) = 15
    /\ comparison.structured.level = EXACT
    /\ comparison.structured.score = <<1, 1>>

\* the weights of the fields that both specs have a value for, in the order
\* brand, series, gpu tier, processor generation, ram, storage, screen
SharedWeights(p1, p2) ==
    << IF p1.brand # <<>> /\ p2.brand # <<>> THEN 15 ELSE 0,
       IF p1.series # <<>> /\ p2.series # <<>> THEN 15 ELSE 0,
       IF p1.gpu_tier # <<>> /\ p2.gpu_tier # <<>> THEN 25 ELSE 0,
       IF p1.processor_gen # <<>> /\ p2.processor_gen # <<>> THEN 15 ELSE 0,
       IF p1.ram_gb # 0 /\ p2.ram_gb # 0 THEN 15 ELSE 0,
       IF p1.storage_gb # 0 /\ p2.storage_gb # 0 THEN 10 ELSE 0,
       IF p1.screen_size # 0 /\ p2.screen_size # 0 THEN 5 ELSE 0 >>

\* C15: without identical model codes, calculate_match_score returns the sum
\* of the earned field weights divided by the sum of the weights of the
\* fields present on both sides, so that a field missing on either side does
\* not lower the score
C15_ScoreOverSharedFields ==
    LET p1 == comparison.product_specs
        p2 == comparison.reference_specs
        shared == SumSeq(SharedWeights(p1, p2))
    IN  (phase = "scored" /\ ~SameModelCode(p1, p2) /\ shared > 0) =>
            /\ comparison.structured.raised = ""
            /\ comparison.structured.score = Frac(SumSeq(earned_weights(p1, p2)), shared)

\* C16: analyze_prices runs the matcher the configuration selects: with
\* match_by_specs set every priced product gets the level of the structured
\* match of its specs against the specs of the identified product, with the
\* flag unset the level of the token match against its title
C16_MatcherSelectedByFlag ==
    (phase = "analyzed" /\ result.your_product # 0) =>
        \A i \in Priced \ WithYourUrl :
            LET yours  == serp[result.your_product]
                fields == calculate_match_score(serp[i].specs, yours.specs)
                tokens == token_match_of(serp[i].title, yours.title, hash_seed)
            IN  result.all_products[i].match_level =
                    IF settings.match_by_specs
                    THEN IF fields.raised = "" THEN fields.level
                         ELSE result.all_products[i].match_level
                    ELSE tokens.level

\* the priced products of the analysed list
PricedAnalysed == {i \in DOMAIN result.all_products : result.all_products[i].price > 0}

\* the n-th lowest price of the analysed list, equal prices counted once each
NthPrice(n) ==
    CHOOSE v \in {result.all_products[i].price : i \in PricedAnalysed} :
        /\ Cardinality({i \in PricedAnalysed : result.all_products[i].price < v}) < n
        /\ Cardinality({i \in PricedAnalysed : result.all_products[i].price <= v}) >= n

RecommendationsOfType(type) ==
    SelectSeq(result.recommendations, LAMBDA r : r.type = type)

\* C17: when the cheapest priced product is below the seller price there is
\* exactly one price_reduction recommendation: from rank 4 on it has priority
\* high and a reduction of the seller price minus the third-cheapest price,
\* at rank 2 or 3 it has priority medium and a reduction of the seller price
\* minus the cheapest price; when no priced product is cheaper there is none
C17_PriceCutRule ==
    Analyzed =>
        LET cuts == RecommendationsOfType("price_reduction")
            rank == result.your_price_rank
        IN  IF PricedAnalysed # {} /\ NthPrice(1) < result.your_price
            THEN /\ Len(cuts) = 1
                 /\ rank > 1
                 /\ rank > 3 =>
                        /\ cuts[1].priority = "high"
                        /\ cuts[1].data.reduction_needed = float_sub(result.your_price, NthPrice(3))
                 /\ rank \in {2, 3} =>
                        /\ cuts[1].priority = "medium"
                        /\ cuts[1].data.reduction_needed = float_sub(result.your_price, NthPrice(1))
            ELSE cuts = <<>>

\* three products below the seller price of 530.00, the cheapest last: rank 4
\* and a cut of 10.00 to the third-cheapest price, 520.00
C17_Witness ==
    /\ phase = "analyzed"
    /\ PricesOf(serp) = <<52000, 50000, 48000>>
    /\ result.your_price = 53000
    /\ result.your_price_rank = 4
    /\ \E k \in DOMAIN result.recommendations :
          /\ result.recommendations[k].type = "price_reduction"
          /\ result.recommendations[k].priority = "high"
          /\ result.recommendations[k].data.reduction_needed = [cents |-> 1000, rounding |-> 0]

\* C18: there is a price_increase recommendation, of priority medium,
\* exactly when your_price_rank is 1, at least two products are priced and the
\* second-cheapest price is more than 20.00 above the seller price; the increase
\* it recommends is 70% of that margin
C18_PriceIncreaseRule ==
    Analyzed =>
        LET rises == RecommendationsOfType("price_increase")
        IN  IF /\ result.your_price_rank = 1
               /\ Cardinality(PricedAnalysed) >= 2
               /\ NthPrice(2) - result.your_price > 2000
            THEN /\ Len(rises) = 1
                 /\ rises[1].priority = "medium"
                 /\ rises[1].data.margin_available = float_sub(NthPrice(2), result.your_price)
                 /\ rises[1].data.recommended_increase =
                        Frac(7 * (NthPrice(2) - result.your_price), 10)
            ELSE rises = <<>>

\* a seller price of 450.00 below products of 520.00 and 480.00: a margin of
\* 70.00 to the second-cheapest and a recommended increase of 49.00
C18_Witness ==
    /\ phase = "analyzed"
    /\ PricesOf(serp) = <<52000, 48000>>
    /\ result.your_price = 45000
    /\ result.your_price_rank = 1
    /\ \E k \in DOMAIN result.recommendations :
          /\ result.recommendations[k].type = "price_increase"
          /\ result.recommendations[k].priority = "medium"
          /\ result.recommendations[k].data.margin_available = [cents |-> 7000, rounding |-> 0]
          /\ result.recommendations[k].data.recommended_increase = <<4900, 1>>

\* the priced products whose discount, computed from original_price and
\* price, is above 15%
DiscountedOver15 ==
    {i \in PricedAnalysed : FracLess(<<15, 1>>, discount_pct(result.all_products[i]))}

OfferAlerts ==
    SelectSeq(result.recommendations,
              LAMBDA r : r.type = "alert" /\ r.title = "competidores con ofertas agresivas")

\* C19: whenever a priced product has a computed discount above 15% there is
\* one high-priority alert about aggressive offers, naming at most 3 stores,
\* whether or not the product carries the is_offer flag
C19_AlertOnAnyDiscountOver15 ==
    (Analyzed /\ DiscountedOver15 # {}) =>
        /\ Len(OfferAlerts) = 1
        /\ OfferAlerts[1].priority = "high"
        /\ Len(OfferAlerts[1].args[2]) <= 3

NotVisibleAlerts ==
    SelectSeq(result.recommendations,
              LAMBDA r : r.type = "alert" /\ r.title = "No apareces en los resultados")

\* C20: after an analysis of a list with a priced product the recommendations
\* hold the high-priority alert that the seller is not visible if and only if
\* your_serp_position is None and your_store_products is empty
C20_NotVisibleAlert ==
    (Analyzed /\ PricedAnalysed # {}) =>
        IF result.your_serp_position = 0 /\ result.your_store_products = <<>>
        THEN Len(NotVisibleAlerts) = 1 /\ NotVisibleAlerts[1].priority = "high"
        ELSE NotVisibleAlerts = <<>>

\* two priced products of another store and none of the seller: the alert
C20_Witness ==
    /\ phase = "analyzed"
    /\ Len(serp) = 2
    /\ \A i \in DOMAIN serp : serp[i].price > 0 /\ serp[i].store = StoreAmazon
    /\ result.your_serp_position = 0
    /\ result.your_store_products = <<>>
    /\ Len(NotVisibleAlerts) = 1

\* the N the convention gives: the priced products, and one more when the
\* seller has no detected position
ConventionTotal(position) == Cardinality(Priced) + (IF position # 0 THEN 0 ELSE 1)

\* C21: wherever a front end shows "rank X of N", N is the number of priced
\* competitors when the seller has a detected SERP position and that number
\* plus 1 when the seller has none
C21_RankDenominatorConvention ==
    /\ phase = "legacy" =>
          built.legacy_total = ConventionTotal(built.legacy.your_serp_position)
    /\ phase = "checker" =>
          built.checker_total = ConventionTotal(built.checker.your_serp_position)

\* C22: analyze_prices never returns an analysis computed from a
\* configuration with a seller price <= 0 or an empty seller domain: it fails
\* with a validation error before any loop over the products
C22_InvalidConfigFailsFast ==
    phase = "analyzed" => (settings.your_price > 0 /\ settings.your_domain # <<>>)

\* the members of the cluster found for the seller
YourClusterMembers == Range(result.clusters[result.your_cluster].products)

\* C23: when your cluster is found, your_price_rank_in_cluster is 1 plus the
\* number of members of that cluster priced strictly below the seller's stated
\* price; a member priced equal to the seller price does not increase it
C23_ClusterRankCountsStrictlyCheaper ==
    (phase = "analyzed" /\ result.your_cluster # 0) =>
        result.your_price_rank_in_cluster =
            1 + Cardinality({i \in YourClusterMembers :
                                result.all_products[i].price < result.your_price})

\* the pairs of titles that, against the pair of the call made, keep the
\* union of the tokens and the brand, model and number parts of the score,
\* and share a strict superset of the tokens the pair of the call shares
MoreOverlap ==
    LET p == tokens_of(comparison.product_title, hash_seed)
        r == tokens_of(comparison.reference_title, hash_seed)
    IN  {pair \in AllTitles \X AllTitles :
            LET q == tokens_of(pair[1], hash_seed)
                t == tokens_of(pair[2], hash_seed)
            IN  /\ q.tokens \cup t.tokens = p.tokens \cup r.tokens
                /\ (p.tokens \cap r.tokens) \subseteq (q.tokens \cap t.tokens)
                /\ (p.tokens \cap r.tokens) # (q.tokens \cap t.tokens)
                /\ brand_part(q, t) = brand_part(p, r)
                /\ number_part(DigitRuns(pair[1], 1), DigitRuns(pair[2], 1))
                      = number_part(DigitRuns(comparison.product_title, 1),
                                    DigitRuns(comparison.reference_title, 1))
                /\ model_part(q, t) = model_part(p, r)}

\* C24: with the brand, model and number parts and the union of the tokens
\* unchanged, a pair of titles that shares a strict superset of the tokens
\* never gets a lower score from calculate_token_match
C24_MoreSharedTokensNoLowerScore ==
    Matched =>
        \A pair \in MoreOverlap :
            FracGeq(token_match_of(pair[1], pair[2], hash_seed).score, comparison.match.score)

\* "Funda Silicona Negra" against the empty title shares nothing and scores
\* 0; against itself the union is the same, every token is shared and the
\* score is 0.4
C24_Witness ==
    /\ phase = "matched"
    /\ comparison.product_title = TitleFunda
    /\ comparison.reference_title = NoText
    /\ comparison.match.score = <<0, 1>>
    /\ <<TitleFunda, TitleFunda>> \in MoreOverlap
    /\ token_match_of(TitleFunda, TitleFunda, hash_seed).score = <<2, 5>>

\* 0.1 times the digit substrings common to both titles over the distinct
\* digit substrings of the two titles together
BonusOverUnion(p_numbers, r_numbers) ==
    IF p_numbers \cup r_numbers = {} THEN <<0, 1>>
    ELSE FracMul(<<10, 100>>, Frac(Cardinality(p_numbers \cap r_numbers),
                                   Cardinality(p_numbers \cup r_numbers)))

\* C25: the numeric bonus in the score of calculate_token_match is 0.1 times
\* the number of digit substrings common to both original titles divided by
\* the number of distinct digit substrings in the union of both titles
C25_NumberBonusOverUnion ==
    Matched =>
        LET p == tokens_of(comparison.product_title, hash_seed)
            r == tokens_of(comparison.reference_title, hash_seed)
        IN  comparison.match.score =
                capped(FracAdd(FracAdd(brand_part(p, r), model_part(p, r)),
                               FracAdd(token_part(p, r),
                                       BonusOverUnion(DigitRuns(comparison.product_title, 1),
                                                      DigitRuns(comparison.reference_title, 1)))))

\* the first product of the list that is a member of cluster c
FirstMember(c) == Least(Range(grouped[c].products))

\* C26: either clustering call returns its clusters by non-increasing member
\* count, clusters of equal count in the order in which their keys first
\* came up among the products clustered, and no cluster empty
C26_ClustersBySizeThenFirstSeen ==
    phase \in {"tier", "brand"} =>
        /\ \A c \in DOMAIN grouped : grouped[c].products # <<>>
        /\ \A c, d \in DOMAIN grouped :
              c < d =>
                 /\ Len(grouped[c].products) >= Len(grouped[d].products)
                 /\ Len(grouped[c].products) = Len(grouped[d].products)
                       => FirstMember(c) < FirstMember(d)

\* tier clustering of three priced products, the second and third with the
\* same specs: their cluster comes first, the cluster of the first product
\* second
C26_Witness ==
    /\ phase = "tier"
    /\ Len(serp) = 3
    /\ Len(grouped) = 2
    /\ grouped[1].products = <<2, 3>>
    /\ grouped[2].products = <<1>>

\* the priced products that are not listings of the seller
PricedCompetitors == PricedAnalysed \ Range(result.your_store_products)

\* C27: whenever there is a price_increase recommendation, no priced product
\* other than the seller's own listings is strictly cheaper than the seller
\* price raised by the recommended increase, also when the seller has no
\* listing in the list
C27_IncreaseKeepsRankOne ==
    Analyzed =>
        \A k \in DOMAIN result.recommendations :
            result.recommendations[k].type = "price_increase" =>
                \A i \in PricedCompetitors :
                    ~FracLess(<<result.all_products[i].price, 1>>,
                              FracAdd(<<result.your_price, 1>>,
                                      result.recommendations[k].data.recommended_increase))

\* the priced products that are strictly cheaper than the seller price less
\* a reduction: a product at the very price the reduction was measured to is
\* cheaper when the subtraction rounded the reduction down
CheaperThanLowered(reduction) ==
    {i \in PricedAnalysed :
        \/ result.all_products[i].price < result.your_price - reduction.cents
        \/ /\ result.all_products[i].price = result.your_price - reduction.cents
           /\ reduction.rounding < 0}

\* C28: for every price_reduction recommendation the reduction is strictly
\* positive, and the price rank at the seller price less reduction_needed is
\* at most 3 when the priority is high and exactly 1 when it is medium
C28_ReductionReachesTarget ==
    Analyzed =>
        \A k \in DOMAIN result.recommendations :
            LET r == result.recommendations[k]
            IN  r.type = "price_reduction" =>
                    /\ r.data.reduction_needed.cents > 0
                    /\ r.priority = "high" =>
                           1 + Cardinality(CheaperThanLowered(r.data.reduction_needed)) <= 3
                    /\ r.priority = "medium" =>
                           1 + Cardinality(CheaperThanLowered(r.data.reduction_needed)) = 1

\* C29: the store a price_reduction or similar_product_alert recommendation
\* names as competitor is not the store of a product in your_store_products
C29_CompetitorIsNotOwnListing ==
    Analyzed =>
        \A k \in DOMAIN result.recommendations :
            result.recommendations[k].type \in {"price_reduction", "similar_product_alert"} =>
                \A j \in DOMAIN result.your_store_products :
                    result.all_products[result.your_store_products[j]].store
                        # result.recommendations[k].data.competitor

\* the three analyses have been made of the same list and seller price
AllThreeMade ==
    /\ phase = "checker"
    /\ result.total_products # 0
    /\ built.legacy.your_price_position # 0

\* C30: on a list with at least one priced product, your_price_rank of
\* analyze_prices and your_price_position of both build_analysis functions are
\* all one more than the number of priced products strictly cheaper than the
\* seller price
C30_PricePositionsAgree ==
    (AllThreeMade /\ Priced # {}) =>
        LET position == 1 + Cardinality({i \in Priced : serp[i].price < settings.your_price})
        IN  /\ result.your_price_rank = position
            /\ built.legacy.your_price_position = position
            /\ built.checker.your_price_position = position

\* the seller price 500.00 on [520.00, 500.00, 480.00]: one product is cheaper
\* and the walk over the sorted list stops at the product of the same price
C30_Witness ==
    /\ AllThreeMade
    /\ PricesOf(serp) = <<52000, 50000, 48000>>
    /\ settings.your_price = 50000
    /\ result.your_price_rank = 2
    /\ built.legacy.your_price_position = 2
    /\ built.checker.your_price_position = 2

====
